---- MODULE Spec2Model ----
(***************************************************************************)
(* Xapo micro-payment SDK (xapo_sdk): the payload codec (PKCS#7 padding,   *)
(* AES in ECB mode, base64) and the two widget builders built on it,       *)
(* xapo_tools.MicroPayment and micro_payment.XapoMicroPaymentSDK.          *)
(*                                                                         *)
(* A text (Python str) is a sequence of code points, a byte string a       *)
(* sequence of numbers 0..255.  A literal text is written as the tuple of  *)
(* its code points, with the text in a comment before it.                  *)
(***************************************************************************)
EXTENDS Integers, Sequences, FiniteSets

VARIABLES
  clock,             \* time.time() * 1000, rounded: the wall clock in ms
  interpreter,       \* the Python the process runs: its version and hash seed
  defaultTimestamp,  \* per module: <<the value of __init__'s timestamp default>>
  configs,           \* the MicroPaymentConfig objects constructed so far
  builders,          \* the MicroPayment / XapoMicroPaymentSDK objects
  frames             \* per caller: the call it is in, with its locals

vars == <<clock, interpreter, defaultTimestamp, configs, builders, frames>>

None == [none |-> TRUE]

(***************************************************************************)
(* Outcomes of a call: a returned value or a raised exception.             *)
(***************************************************************************)
Return(v) == [ok |-> TRUE, value |-> v]

Raise(e) == [ok |-> FALSE, error |-> e]

(***************************************************************************)
(* Sequences.                                                              *)
(***************************************************************************)
\* A function over 1..n as a tuple: its elements computed once.
Tuple(f) == f \o << >>

Repeat(x, n) == Tuple([i \in 1..n |-> x])

\* The concatenation of the sequences ss[lo..hi].
RECURSIVE FlattenRange(_, _, _)
FlattenRange(ss, lo, hi) ==
  IF lo > hi THEN << >>
  ELSE IF lo = hi THEN ss[lo]
  ELSE LET mid == (lo + hi) \div 2
       IN  FlattenRange(ss, lo, mid) \o FlattenRange(ss, mid + 1, hi)

Flatten(ss) == FlattenRange(ss, 1, Len(ss))

Range(s) == {s[i] : i \in 1..Len(s)}

StartsWith(s, p) == Len(p) <= Len(s) /\ SubSeq(s, 1, Len(p)) = p

\* The first position of character c in s, 0 when there is none.
Find(s, c) ==
  LET at == {i \in 1..Len(s) : s[i] = c}
  IN  IF at = {} THEN 0 ELSE CHOOSE i \in at : \A j \in at : i <= j

\* str.split(sep) for a one-character separator.
RECURSIVE Split(_, _)
Split(s, c) ==
  LET i == Find(s, c)
  IN  IF i = 0 THEN <<s>>
      ELSE <<SubSeq(s, 1, i - 1)>> \o Split(SubSeq(s, i + 1, Len(s)), c)

\* sep.join(parts).
RECURSIVE Join(_, _)
Join(parts, sep) ==
  IF parts = << >> THEN << >>
  ELSE IF Len(parts) = 1 THEN parts[1]
  ELSE parts[1] \o sep \o Join(Tail(parts), sep)

(***************************************************************************)
(* Characters and numbers as text.                                         *)
(***************************************************************************)
HexDigitsLower == (* "0123456789abcdef" *) <<48, 49, 50, 51, 52, 53, 54, 55, 56, 57, 97, 98, 99, 100, 101, 102>>

HexDigitsUpper == (* "0123456789ABCDEF" *) <<48, 49, 50, 51, 52, 53, 54, 55, 56, 57, 65, 66, 67, 68, 69, 70>>

DecDigits == (* "0123456789" *) <<48, 49, 50, 51, 52, 53, 54, 55, 56, 57>>

\* str(n) for an integer n.
RECURSIVE NatStr(_)
NatStr(n) == IF n < 10 THEN <<DecDigits[n + 1]>>
             ELSE NatStr(n \div 10) \o <<DecDigits[(n % 10) + 1]>>

IntStr(n) == IF n < 0 THEN (* "-" *) <<45>> \o NatStr(0 - n) ELSE NatStr(n)

(***************************************************************************)
(* The interpreter.  The SDK runs on Python 2.7 and on Python 3; what      *)
(* differs between the versions, as far as the SDK goes, is the default    *)
(* encoding, the UTF-8 codec on surrogates, the characters urllib never    *)
(* quotes, and the order in which a dict is iterated:                      *)
(*   2.7       the order of the hash table, str hashes not randomized;     *)
(*   3.3 - 3.5 the order of the hash table, str hashes keyed by a seed     *)
(*             fixed when the process starts;                              *)
(*   3.6 on    the order of insertion.                                     *)
(* version is "2.7", "3.5" (for 3.4 and 3.5), "3.6" or "3.7" (for 3.7 on); *)
(* hashseed is the PYTHONHASHSEED of a 3.5 process.                        *)
(***************************************************************************)
Interpreter(version, hashseed) == [version |-> version, hashseed |-> hashseed]

\* sys.getdefaultencoding().
defaultencoding == IF interpreter.version = "2.7" THEN "ascii" ELSE "utf-8"

\* text.encode("utf-8") of one code point.  Python 3 refuses a surrogate;
\* Python 2 encodes it like any code point of three bytes.
Utf8Char(c) ==
  IF c < 128 THEN Return(<<c>>)
  ELSE IF c < 2048 THEN Return(<<192 + (c \div 64), 128 + (c % 64)>>)
  ELSE IF c >= 55296 /\ c <= 57343 /\ interpreter.version # "2.7"
    THEN Raise("UnicodeEncodeError")
  ELSE IF c < 65536
    THEN Return(<<224 + (c \div 4096), 128 + ((c \div 64) % 64),
                  128 + (c % 64)>>)
  ELSE Return(<<240 + (c \div 262144), 128 + ((c \div 4096) % 64),
                128 + ((c \div 64) % 64), 128 + (c % 64)>>)

\* text.encode("utf-8").
Utf8(text) ==
  LET chars == Tuple([i \in 1..Len(text) |-> Utf8Char(text[i])])
  IN  IF \E i \in 1..Len(chars) : ~chars[i].ok
        THEN Raise("UnicodeEncodeError")
        ELSE Return(Flatten(Tuple([i \in 1..Len(chars) |-> chars[i].value])))

IsAscii(text) == \A i \in 1..Len(text) : text[i] < 128

\* The bytes the C extension receives for a text argument (format "s#"): the
\* text in the interpreter's default encoding.
DefaultEncode(text, encoding) ==
  IF encoding = "ascii"
    THEN IF IsAscii(text) THEN Return(text) ELSE Raise("UnicodeEncodeError")
    ELSE Utf8(text)

(***************************************************************************)
(* xapo_utils._pkcs7_padding and micro_payment._pkcs7_encode.              *)
(***************************************************************************)
BlockSize == 16

\* Faulty variant: nothing is appended to a whole number of blocks.
PaddingZeroAtBoundary(bytestring, k) ==
  LET l == Len(bytestring)
      val == (k - (l % k)) % k
  IN  bytestring \o Repeat(val, val)

\* Faulty variant: the block is filled with zeros.
PaddingWithZeros(bytestring, k) ==
  LET l == Len(bytestring)
      val == k - (l % k)
  IN  bytestring \o Repeat(0, val)

_pkcs7_padding(bytestring, k) ==
  LET l == Len(bytestring)
      val == k - (l % k)
  IN  bytestring \o Repeat(val, val)

_pkcs7_encode(bytestring, k) ==
  LET l == Len(bytestring)
      val == k - (l % k)
  IN  bytestring \o Repeat(val, val)

(***************************************************************************)
(* Crypto.Cipher.AES (FIPS 197), as AES.new(key, MODE_ECB).encrypt uses    *)
(* it.  The state is the 16 bytes of a block in input order (column by     *)
(* column).                                                                *)
(***************************************************************************)
RECURSIVE XorBits(_, _, _)
XorBits(a, b, n) ==
  IF n = 0 THEN 0
  ELSE ((a + b) % 2) + 2 * XorBits(a \div 2, b \div 2, n - 1)

XorNibble ==
  Tuple([a \in 1..16 |-> Tuple([b \in 1..16 |-> XorBits(a - 1, b - 1, 4)])])

Xor(a, b) == 16 * XorNibble[(a \div 16) + 1][(b \div 16) + 1]
             + XorNibble[(a % 16) + 1][(b % 16) + 1]

SBox ==
  <<  99, 124, 119, 123, 242, 107, 111, 197,  48,   1, 103,  43, 254, 215, 171, 118,
     202, 130, 201, 125, 250,  89,  71, 240, 173, 212, 162, 175, 156, 164, 114, 192,
     183, 253, 147,  38,  54,  63, 247, 204,  52, 165, 229, 241, 113, 216,  49,  21,
       4, 199,  35, 195,  24, 150,   5, 154,   7,  18, 128, 226, 235,  39, 178, 117,
       9, 131,  44,  26,  27, 110,  90, 160,  82,  59, 214, 179,  41, 227,  47, 132,
      83, 209,   0, 237,  32, 252, 177,  91, 106, 203, 190,  57,  74,  76,  88, 207,
     208, 239, 170, 251,  67,  77,  51, 133,  69, 249,   2, 127,  80,  60, 159, 168,
      81, 163,  64, 143, 146, 157,  56, 245, 188, 182, 218,  33,  16, 255, 243, 210,
     205,  12,  19, 236,  95, 151,  68,  23, 196, 167, 126,  61, 100,  93,  25, 115,
      96, 129,  79, 220,  34,  42, 144, 136,  70, 238, 184,  20, 222,  94,  11, 219,
     224,  50,  58,  10,  73,   6,  36,  92, 194, 211, 172,  98, 145, 149, 228, 121,
     231, 200,  55, 109, 141, 213,  78, 169, 108,  86, 244, 234, 101, 122, 174,   8,
     186, 120,  37,  46,  28, 166, 180, 198, 232, 221, 116,  31,  75, 189, 139, 138,
     112,  62, 181, 102,  72,   3, 246,  14,  97,  53,  87, 185, 134, 193,  29, 158,
     225, 248, 152,  17, 105, 217, 142, 148, 155,  30, 135, 233, 206,  85,  40, 223,
     140, 161, 137,  13, 191, 230,  66, 104,  65, 153,  45,  15, 176,  84, 187,  22 >>

Rcon == <<1, 2, 4, 8, 16, 32, 64, 128, 27, 54>>

AESKeySizes == {16, 24, 32}

xtime(a) == IF 2 * a >= 256 THEN Xor(2 * a - 256, 27) ELSE 2 * a

SubBytes(s) == Tuple([i \in 1..Len(s) |-> SBox[s[i] + 1]])

ShiftRows(s) ==
  Tuple([i \in 1..16 |-> LET r == (i - 1) % 4
                             c == (i - 1) \div 4
                         IN  s[r + 4 * ((c + r) % 4) + 1]])

MixColumns(s) ==
  Tuple([i \in 1..16 |->
     LET r  == (i - 1) % 4
         c0 == 4 * ((i - 1) \div 4)
         a0 == s[c0 + r + 1]
         a1 == s[c0 + ((r + 1) % 4) + 1]
         a2 == s[c0 + ((r + 2) % 4) + 1]
         a3 == s[c0 + ((r + 3) % 4) + 1]
     IN  Xor(Xor(xtime(a0), Xor(xtime(a1), a1)), Xor(a2, a3))])

AddRoundKey(s, k) == Tuple([i \in 1..16 |-> Xor(s[i], k[i])])

\* The key schedule: w holds the bytes of the words expanded so far.
RECURSIVE ExpandKey(_, _, _)
ExpandKey(w, Nk, total) ==
  IF Len(w) >= total THEN w
  ELSE LET i    == Len(w) \div 4
           prev == SubSeq(w, Len(w) - 3, Len(w))
           back == SubSeq(w, Len(w) - 4 * Nk + 1, Len(w) - 4 * Nk + 4)
           rot  == <<prev[2], prev[3], prev[4], prev[1]>>
           temp == IF i % Nk = 0
                     THEN LET sw == SubBytes(rot)
                          IN  <<Xor(sw[1], Rcon[i \div Nk]), sw[2], sw[3], sw[4]>>
                   ELSE IF Nk > 6 /\ i % Nk = 4 THEN SubBytes(prev)
                   ELSE prev
       IN  ExpandKey(w \o [j \in 1..4 |-> Xor(back[j], temp[j])], Nk, total)

KeyExpansion(key) ==
  LET Nk == Len(key) \div 4
      Nr == Nk + 6
  IN  ExpandKey(key, Nk, 16 * (Nr + 1))

RoundKey(w, round) == SubSeq(w, 16 * round + 1, 16 * round + 16)

\* Rounds round..Nr on state s.  (The test on s has the state of a round
\* computed before the next round starts.)
RECURSIVE Rounds(_, _, _, _)
Rounds(s, w, round, Nr) ==
  IF Len(s) = 16 /\ round < Nr
    THEN Rounds(AddRoundKey(MixColumns(ShiftRows(SubBytes(s))),
                            RoundKey(w, round)), w, round + 1, Nr)
    ELSE AddRoundKey(ShiftRows(SubBytes(s)), RoundKey(w, round))

\* One block under the expanded key w.
Cipher(block, w) ==
  LET Nr == (Len(w) \div 16) - 1
  IN  Rounds(AddRoundKey(block, RoundKey(w, 0)), w, 1, Nr)

Blocks(data) ==
  Tuple([b \in 1..(Len(data) \div 16) |-> SubSeq(data, 16 * b - 15, 16 * b)])


\* cipher.encrypt in ECB mode: every block on its own, under the same key.
EncryptECB(data, w) ==
  Flatten(Tuple([b \in 1..(Len(data) \div 16) |->
                   Cipher(SubSeq(data, 16 * b - 15, 16 * b), w)]))

\* Faulty variant: chained blocks (CBC) with an IV taken from the clock.
RECURSIVE ChainBlocks(_, _, _)
ChainBlocks(blocks, w, prev) ==
  IF blocks = << >> THEN << >>
  ELSE LET c == Cipher(AddRoundKey(Head(blocks), prev), w)
       IN  c \o ChainBlocks(Tail(blocks), w, c)

EncryptChained(data, w) == ChainBlocks(Blocks(data), w, Repeat(clock, 16))

EncryptBlocks(data, w) == EncryptECB(data, w)

\* Faulty variant: any key of 16 to 32 bytes that is a whole number of words.
AESNewAnyKeyLength(key) ==
  LET k == DefaultEncode(key, defaultencoding)
  IN  IF ~k.ok THEN k
      ELSE IF Len(k.value) % 4 # 0 \/ Len(k.value) < 16 \/ Len(k.value) > 32
        THEN Raise("ValueError")
      ELSE Return([mode |-> "MODE_ECB", w |-> KeyExpansion(k.value)])

\* AES.new(key=app_secret, mode=AES.MODE_ECB): the cipher object, holding the
\* expanded key.
AESNew(key) ==
  LET k == DefaultEncode(key, defaultencoding)
  IN  IF ~k.ok THEN k
      ELSE IF Len(k.value) \notin AESKeySizes THEN Raise("ValueError")
      ELSE Return([mode |-> "MODE_ECB", w |-> KeyExpansion(k.value)])

\* cipher.encrypt(padded_payload).
CipherEncrypt(cipher, text) ==
  LET data == DefaultEncode(text, defaultencoding)
  IN  IF ~data.ok THEN data
      ELSE IF Len(data.value) % 16 # 0 THEN Raise("ValueError")
      ELSE Return(EncryptBlocks(data.value, cipher.w))

(***************************************************************************)
(* base64.b64encode.                                                       *)
(***************************************************************************)
B64Alphabet ==
  (* "ABCDEFGHIJKLMNOPQRSTUVWXYZabcdefghijklmnopqrstuvwxyz0123456789+/" *) <<65, 66, 67, 68, 69, 70, 71, 72, 73, 74, 75, 76, 77, 78, 79, 80, 81, 82, 83, 84, 85, 86, 87, 88, 89, 90, 97, 98, 99, 100, 101, 102, 103, 104, 105, 106, 107, 108, 109, 110, 111, 112, 113, 114, 115, 116, 117, 118, 119, 120, 121, 122, 48, 49, 50, 51, 52, 53, 54, 55, 56, 57, 43, 47>>

B64Pad == (* "=" *) <<61>>

B64Group(g) ==
  LET n  == Len(g)
      b1 == g[1]
      b2 == IF n >= 2 THEN g[2] ELSE 0
      b3 == IF n >= 3 THEN g[3] ELSE 0
  IN  <<B64Alphabet[(b1 \div 4) + 1],
        B64Alphabet[((b1 % 4) * 16 + (b2 \div 16)) + 1]>>
      \o (IF n >= 2 THEN <<B64Alphabet[((b2 % 16) * 4 + (b3 \div 64)) + 1]>>
                    ELSE B64Pad)
      \o (IF n >= 3 THEN <<B64Alphabet[(b3 % 64) + 1]>> ELSE B64Pad)

b64encode(data) ==
  Flatten(Tuple([g \in 1..((Len(data) + 2) \div 3) |->
             B64Group(SubSeq(data, 3 * g - 2,
                             IF 3 * g <= Len(data) THEN 3 * g ELSE Len(data)))]))

(***************************************************************************)
(* xapo_utils.encrypt and micro_payment._encrypt, statement by statement.  *)
(* The locals of a call are kept in a record; pc names the next statement. *)
(***************************************************************************)
\* cipher = AES.new(key=app_secret, mode=AES.MODE_ECB)
StmtAESNew(f) ==
  LET c == AESNew(f.app_secret)
  IN  IF c.ok THEN [f EXCEPT !.cipher = c.value, !.pc = "padding"]
      ELSE [f EXCEPT !.pc = "done", !.result = c]

\* padded_payload = _pkcs7_padding(payload)
StmtPadding(f) ==
  [f EXCEPT !.padded_payload =
              IF f.module = "xapo_tools" THEN _pkcs7_padding(f.payload, BlockSize)
              ELSE _pkcs7_encode(f.payload, BlockSize),
            !.pc = "cipher_encrypt"]

\* encrypted_payload = cipher.encrypt(padded_payload)
StmtCipherEncrypt(f) ==
  LET e == CipherEncrypt(f.cipher, f.padded_payload)
  IN  IF e.ok THEN [f EXCEPT !.encrypted_payload = e.value, !.pc = "b64encode"]
      ELSE [f EXCEPT !.pc = "done", !.result = e]

\* encoded_payload = base64.b64encode(encrypted_payload); return encoded_payload
StmtB64Encode(f) ==
  LET encoded == b64encode(f.encrypted_payload)
  IN  IF f.fn = "encrypt"
        THEN [f EXCEPT !.encoded_payload = encoded, !.pc = "done",
                       !.result = Return(encoded)]
        ELSE [f EXCEPT !.encoded_payload = encoded, !.encrypted_config = encoded,
                       !.pc = "urlencode"]


(***************************************************************************)
(* The order in which a dict is iterated.  A dict is given as the sequence *)
(* of its items <<key, value>> in the order of insertion, the keys texts   *)
(* and distinct.                                                           *)
(*                                                                         *)
(* Python 2.7 (Objects/stringobject.c, Objects/dictobject.c, 64-bit        *)
(* build): a hash table of 8 slots that grows to the power of two above 4  *)
(* times its entries when two thirds are in use, iterated slot by slot.    *)
(* A C long is given as its 8 bytes, the lowest first.                     *)
(***************************************************************************)
RECURSIVE Limbs(_, _)
Limbs(n, k) == IF k = 0 THEN << >> ELSE <<n % 256>> \o Limbs(n \div 256, k - 1)

\* a * m + carry, for a word a and numbers m and carry below 2^22.
RECURSIVE MulAdd(_, _, _)
MulAdd(a, m, carry) ==
  IF a = << >> THEN << >>
  ELSE LET v == a[1] * m + carry
       IN  <<v % 256>> \o MulAdd(Tail(a), m, v \div 256)

RECURSIVE AddWords(_, _, _)
AddWords(a, b, carry) ==
  IF a = << >> THEN << >>
  ELSE LET v == a[1] + b[1] + carry
       IN  <<v % 256>> \o AddWords(Tail(a), Tail(b), v \div 256)

XorWords(a, b) == Tuple([i \in 1..8 |-> Xor(a[i], b[i])])

\* a >> 5.
ShiftRight5(a) ==
  Tuple([i \in 1..8 |->
           (a[i] \div 32) + 8 * ((IF i < 8 THEN a[i + 1] ELSE 0) % 32)])

\* x = (1000003 * x) ^ s[i], for the characters of s from i on.
RECURSIVE StringHashLoop(_, _, _)
StringHashLoop(s, i, x) ==
  IF i > Len(s) \/ Len(x) # 8 THEN x
  ELSE StringHashLoop(s, i + 1,
                      XorWords(MulAdd(x, 1000003, 0), Limbs(s[i], 8)))

\* hash(s) for a str or unicode s.
string_hash(s) ==
  IF s = << >> THEN Limbs(0, 8)
  ELSE LET x == XorWords(StringHashLoop(s, 1, Limbs(s[1] * 128, 8)),
                         Limbs(Len(s), 8))
       IN  IF x = Repeat(255, 8) THEN <<254>> \o Repeat(255, 7) ELSE x

\* A table is the sequence of its slots: 0 for a free slot, else the
\* position of the item in d.  i & mask, as a position from 1:
Slot(i, size) == ((i[1] + 256 * i[2]) % size) + 1

\* The probe sequence of lookdict after the first slot, to a free slot.
RECURSIVE Probe(_, _, _)
Probe(table, i, perturb) ==
  LET next == AddWords(MulAdd(i, 5, 1), perturb, 0)
      slot == Slot(next, Len(table))
  IN  IF table[slot] = 0 THEN slot
      ELSE Probe(table, next, ShiftRight5(perturb))

\* The slot a new key of hash h is stored in.
lookdict(table, h) ==
  LET first == Slot(h, Len(table))
  IN  IF table[first] = 0 THEN first
      ELSE Probe(table, Limbs(first - 1, 8), h)

RECURSIVE NewSize(_, _)
NewSize(size, minused) ==
  IF size > minused THEN size ELSE NewSize(2 * size, minused)

\* The entries stored one after the other into table.
RECURSIVE Reinsert(_, _, _, _)
Reinsert(table, entries, hashes, k) ==
  IF k > Len(entries) THEN table
  ELSE Reinsert([table EXCEPT ![lookdict(table, hashes[entries[k]])] =
                   entries[k]],
                entries, hashes, k + 1)

\* dictresize(mp, minused): the entries of the old table, slot by slot, are
\* stored into a new one.
dictresize(table, hashes, minused) ==
  Reinsert(Repeat(0, NewSize(8, minused)), SelectSeq(table, LAMBDA e : e # 0),
           hashes, 1)

\* PyDict_SetItem for the items from k on (a dict of fewer than 50000).
RECURSIVE SetItems(_, _, _)
SetItems(table, hashes, k) ==
  IF k > Len(hashes) THEN table
  ELSE LET stored == [table EXCEPT ![lookdict(table, hashes[k])] = k]
       IN  SetItems(IF k * 3 >= Len(stored) * 2
                      THEN dictresize(stored, hashes, 4 * k)
                      ELSE stored,
                    hashes, k + 1)

\* The items of d at the entries of a table, slot by slot.
TableItems(d, table) ==
  LET entries == SelectSeq(table, LAMBDA e : e # 0)
  IN  Tuple([i \in 1..Len(entries) |-> d[entries[i]]])

\* The items of d in the order Python 2.7 iterates them.  (BUILD_MAP
\* presizes the table of a dict display of more than 5 items.)
Py27Order(d, display) ==
  TableItems(d, SetItems(Repeat(0, IF display /\ Len(d) > 5
                                     THEN NewSize(8, Len(d)) ELSE 8),
                         Tuple([i \in 1..Len(d) |-> string_hash(d[i][1])]),
                         1))

(***************************************************************************)
(* Python 3.4 and 3.5 (Python/random.c, Python/pyhash.c,                   *)
(* Objects/dictobject.c): the hash of a str is SipHash-2-4 of its          *)
(* characters under the key of the process, which PYTHONHASHSEED = seed    *)
(* fixes (without it the key is random: every seed stands for a process);  *)
(* the table is that of 2.7 with another rule of growth, and the __dict__  *)
(* of an object starts with the 4 slots of the key table of its class.     *)
(* (3.3 has another hash function; its orders depend on the seed too.)     *)
(***************************************************************************)
\* lcg_urandom: size bytes from the unsigned int x.
RECURSIVE lcg_urandom(_, _)
lcg_urandom(x, size) ==
  IF size = 0 \/ Len(x) # 4 THEN << >>
  ELSE LET next == MulAdd(x, 214013, 2531011)
       IN  <<next[3]>> \o lcg_urandom(next, size - 1)

\* _Py_HashSecret: seed 0 disables the randomization.
HashSecret(seed) ==
  IF seed = 0 THEN Repeat(0, 24) ELSE lcg_urandom(Limbs(seed, 4), 24)

\* a rotated left by n bits.
RotateLeft(a, n) ==
  LET q == n \div 8
      r == n % 8
  IN  Tuple([i \in 1..8 |->
        ((a[((i + 7 - q) % 8) + 1] * (2 ^ r)) % 256)
        + (a[((i + 6 - q) % 8) + 1] \div (2 ^ (8 - r)))])

\* a += b; c += d.
Sums(v) == <<AddWords(v[1], v[2], 0), v[2], AddWords(v[3], v[4], 0), v[4]>>

\* b = ROTATE(b, s) ^ a; d = ROTATE(d, t) ^ c; a = ROTATE(a, 32); the result
\* is <<c, b, a, d>>.
Rotations(v, s, t) ==
  <<v[3], XorWords(RotateLeft(v[2], s), v[1]),
    RotateLeft(v[1], 32), XorWords(RotateLeft(v[4], t), v[3])>>

\* HALF_ROUND(a, b, c, d, s, t) on v = <<a, b, c, d>>, giving <<c, b, a, d>>:
\* the order in which the next half round takes them.
HalfRound(v, s, t) == Rotations(Sums(v), s, t)

\* One round on v = <<v0, v1, v2, v3>>: HALF_ROUND(v0, v1, v2, v3, 13, 16);
\* HALF_ROUND(v2, v1, v0, v3, 17, 21).
SipRound(v) == HalfRound(HalfRound(v, 13, 16), 17, 21)

\* n rounds on v.  (The test on v has a round computed before the next
\* one starts.)
RECURSIVE SipRounds(_, _)
SipRounds(v, n) ==
  IF n = 0 \/ Len(v) # 4 THEN v ELSE SipRounds(SipRound(v), n - 1)

\* v[k] ^= m.
XorWord(v, k, m) == [v EXCEPT ![k] = XorWords(v[k], m)]

\* v after the word m: v3 ^= m, two rounds, v0 ^= m.
SipWord(v, m) == XorWord(SipRounds(XorWord(v, 4, m), 2), 1, m)

\* The whole words of src from byte i on, compressed into v.
RECURSIVE SipCompress(_, _, _)
SipCompress(v, src, i) ==
  IF i + 7 > Len(src) \/ Len(v) # 4 THEN v
  ELSE SipCompress(SipWord(v, SubSeq(src, i, i + 7)), src, i + 8)

\* (v0 ^ v1) ^ (v2 ^ v3).
SipFold(v) == XorWords(XorWords(v[1], v[2]), XorWords(v[3], v[4]))

\* The last word is the bytes after the whole words, with the length of src
\* in the highest byte.
siphash24(k0, k1, src) ==
  LET n    == Len(src)
      rest == SubSeq(src, 8 * (n \div 8) + 1, n)
      v    == <<XorWords(k0, (* "uespemos" *) <<117, 101, 115, 112, 101, 109, 111, 115>>),
                XorWords(k1, (* "modnarod" *) <<109, 111, 100, 110, 97, 114, 111, 100>>),
                XorWords(k0, (* "arenegyl" *) <<97, 114, 101, 110, 101, 103, 121, 108>>),
                XorWords(k1, (* "setybdet" *) <<115, 101, 116, 121, 98, 100, 101, 116>>)>>
  IN  SipFold(SipRounds(
        XorWord(SipWord(SipCompress(v, src, 1),
                        rest \o Repeat(0, 7 - Len(rest)) \o <<n % 256>>),
                3, Limbs(255, 8)),
        4))

\* The bytes of a str in memory: 1, 2 or 4 for every character, by its
\* greatest.
UnicodeData(s) ==
  LET kind == IF \A i \in 1..Len(s) : s[i] < 256 THEN 1
              ELSE IF \A i \in 1..Len(s) : s[i] < 65536 THEN 2
              ELSE 4
  IN  Flatten(Tuple([i \in 1..Len(s) |-> Limbs(s[i], kind)]))

\* A hash of -1 is made -2.
HashOf(x) == IF x = Repeat(255, 8) THEN <<254>> \o Repeat(255, 7) ELSE x

\* hash(s) for a str s in a process of the seed.
unicode_hash(s, seed) ==
  IF s = << >> THEN Limbs(0, 8)
  ELSE HashOf(siphash24(SubSeq(HashSecret(seed), 1, 8),
                        SubSeq(HashSecret(seed), 9, 16), UnicodeData(s)))

\* USABLE_FRACTION(n).
UsableFraction(n) == (2 * n + 1) \div 3

\* insertdict for the items from k on, usable the entries the table takes
\* before it grows (to the power of two above twice its entries and half
\* its slots).
RECURSIVE Py35SetItems(_, _, _, _)
Py35SetItems(table, usable, hashes, k) ==
  IF k > Len(hashes) \/ table = << >> THEN table
  ELSE LET used  == k - 1
           grown == IF usable <= 0
                      THEN dictresize(table, hashes,
                                      2 * used + (Len(table) \div 2))
                      ELSE table
           free  == IF usable <= 0 THEN UsableFraction(Len(grown)) - used
                    ELSE usable
       IN  Py35SetItems([grown EXCEPT ![lookdict(grown, hashes[k])] = k],
                        free - 1, hashes, k + 1)

\* The items of d in the order Python 3.4 and 3.5 iterate them.
Py35Order(d, display, seed) ==
  LET size == IF display THEN NewSize(8, Len(d)) ELSE 4
  IN  TableItems(d, Py35SetItems(
                      Repeat(0, size), UsableFraction(size),
                      Tuple([i \in 1..Len(d) |-> unicode_hash(d[i][1], seed)]),
                      1))

\* list(d.items()), for d a dict display ({...}) or the __dict__ of an
\* object.
DictItems(d, display) ==
  IF interpreter.version = "2.7" THEN Py27Order(d, display)
  ELSE IF interpreter.version = "3.5"
    THEN Py35Order(d, display, interpreter.hashseed)
  ELSE d

(***************************************************************************)
(* json.dumps (default arguments: ensure_ascii, separators ", " and ": ")  *)
(* of the values the SDK serializes: str, int, and a dict of them.         *)
(***************************************************************************)
StrVal(text) == [type |-> "str", v |-> text]

IntVal(n) == [type |-> "int", v |-> n]

FloatVal(repr) == [type |-> "float", v |-> repr]

Hex4(n) ==
  <<HexDigitsLower[(n \div 4096) + 1], HexDigitsLower[((n \div 256) % 16) + 1],
    HexDigitsLower[((n \div 16) % 16) + 1], HexDigitsLower[(n % 16) + 1]>>

\* One character of a string under ESCAPE_ASCII.
JsonEscapeChar(c) ==
  IF c = 34 THEN (* "\\\"" *) <<92, 34>>
  ELSE IF c = 92 THEN (* "\\\\" *) <<92, 92>>
  ELSE IF c = 10 THEN (* "\\n" *) <<92, 110>>
  ELSE IF c = 13 THEN (* "\\r" *) <<92, 114>>
  ELSE IF c = 9 THEN (* "\\t" *) <<92, 116>>
  ELSE IF c = 12 THEN (* "\\f" *) <<92, 102>>
  ELSE IF c = 8 THEN (* "\\b" *) <<92, 98>>
  ELSE IF c >= 32 /\ c <= 126 THEN <<c>>
  ELSE IF c < 65536 THEN (* "\\u" *) <<92, 117>> \o Hex4(c)
  ELSE LET v == c - 65536
       IN  (* "\\u" *) <<92, 117>> \o Hex4(55296 + (v \div 1024)) \o
           (* "\\u" *) <<92, 117>> \o Hex4(56320 + (v % 1024))

JsonString(text) ==
  (* "\"" *) <<34>> \o Flatten(Tuple([i \in 1..Len(text) |-> JsonEscapeChar(text[i])])) \o (* "\"" *) <<34>>

\* A float is given by its repr, which is what json.dumps writes.
JsonValue(val) ==
  IF val.type = "str" THEN JsonString(val.v)
  ELSE IF val.type = "float" THEN val.v
  ELSE IntStr(val.v)

\* The object of the items of a dict, in their order.
JsonObject(items) ==
  (* "{" *) <<123>> \o Join(Tuple([i \in 1..Len(items) |->
                 JsonString(items[i][1]) \o (* ": " *) <<58, 32>> \o JsonValue(items[i][2])]),
               (* ", " *) <<44, 32>>) \o (* "}" *) <<125>>

\* json.dumps(d) for a dict d: a dict display, or the __dict__ of an object.
JsonDumps(d, display) == JsonObject(DictItems(d, display))

\* d[key] for a dict given as its items; None when the key is missing.
DictGet(d, key) ==
  LET at == {i \in 1..Len(d) : d[i][1] = key}
  IN  IF at = {} THEN None ELSE d[CHOOSE i \in at : TRUE][2]

(***************************************************************************)
(* urllib.parse.urlencode, which quotes keys and values with quote_plus.   *)
(***************************************************************************)
\* The characters quote never escapes: letters, digits and "_.-", and from
\* Python 3.7 on "~" (in Python 2.7 urlencode is that of the future package,
\* which is the one of Python 3.3).
AlwaysSafe ==
  Range((* "ABCDEFGHIJKLMNOPQRSTUVWXYZabcdefghijklmnopqrstuvwxyz0123456789_.-" *) <<65, 66, 67, 68, 69, 70, 71, 72, 73, 74, 75, 76, 77, 78, 79, 80, 81, 82, 83, 84, 85, 86, 87, 88, 89, 90, 97, 98, 99, 100, 101, 102, 103, 104, 105, 106, 107, 108, 109, 110, 111, 112, 113, 114, 115, 116, 117, 118, 119, 120, 121, 122, 48, 49, 50, 51, 52, 53, 54, 55, 56, 57, 95, 46, 45>>)
  \cup (IF interpreter.version = "3.7" THEN Range((* "~" *) <<126>>) ELSE {})

QuoteByte(b) ==
  IF b \in AlwaysSafe THEN <<b>>
  ELSE IF b = 32 THEN (* "+" *) <<43>>
  ELSE (* "%" *) <<37>> \o <<HexDigitsUpper[(b \div 16) + 1], HexDigitsUpper[(b % 16) + 1]>>

\* quote_plus(text): the bytes of text in UTF-8, quoted.
quote_plus(text) ==
  LET data == Utf8(text)
  IN  IF ~data.ok THEN data
      ELSE Return(Flatten(Tuple([i \in 1..Len(data.value) |->
                                   QuoteByte(data.value[i])])))

\* The pairs k=v joined by "&", for the quoted keys and values.
JoinPairs(quoted) ==
  IF \E i \in 1..Len(quoted) : ~quoted[i][1].ok \/ ~quoted[i][2].ok
    THEN Raise("UnicodeEncodeError")
    ELSE Return(Join(Tuple([i \in 1..Len(quoted) |->
                  quoted[i][1].value \o (* "=" *) <<61>> \o quoted[i][2].value]),
                (* "&" *) <<38>>))

\* The keys and values of the items as they are.
Unquoted(items) ==
  Tuple([i \in 1..Len(items) |-> <<Return(items[i][1]), Return(items[i][2])>>])

\* The keys and values of the items under quote_plus.
Quoted(items) ==
  Tuple([i \in 1..Len(items) |->
           <<quote_plus(items[i][1]), quote_plus(items[i][2])>>])

\* Faulty variant: keys and values are joined as they are.
urlencodeUnquoted(query) == JoinPairs(Unquoted(DictItems(query, TRUE)))

\* urlencode(query) for a dict of texts.
urlencode(query) == JoinPairs(Quoted(DictItems(query, TRUE)))

(***************************************************************************)
(* The two snippets, and str.format and textwrap.dedent on them.  A        *)
(* template is the text before and after its one replacement field, with   *)
(* the doubled braces of the source already single.                        *)
(***************************************************************************)
IframeTemplate ==
  [before |->
     (* "\n" *) <<10>> \o
     (* "                <iframe id=\"tipButtonFrame\" scrolling=\"no\" frameborder=\"0\"\n" *) <<32, 32, 32, 32, 32, 32, 32, 32, 32, 32, 32, 32, 32, 32, 32, 32, 60, 105, 102, 114, 97, 109, 101, 32, 105, 100, 61, 34, 116, 105, 112, 66, 117, 116, 116, 111, 110, 70, 114, 97, 109, 101, 34, 32, 115, 99, 114, 111, 108, 108, 105, 110, 103, 61, 34, 110, 111, 34, 32, 102, 114, 97, 109, 101, 98, 111, 114, 100, 101, 114, 61, 34, 48, 34, 10>> \o
     (* "                    style=\"border:none; overflow:hidden; height:22px;\"\n" *) <<32, 32, 32, 32, 32, 32, 32, 32, 32, 32, 32, 32, 32, 32, 32, 32, 32, 32, 32, 32, 115, 116, 121, 108, 101, 61, 34, 98, 111, 114, 100, 101, 114, 58, 110, 111, 110, 101, 59, 32, 111, 118, 101, 114, 102, 108, 111, 119, 58, 104, 105, 100, 100, 101, 110, 59, 32, 104, 101, 105, 103, 104, 116, 58, 50, 50, 112, 120, 59, 34, 10>> \o
     (* "                    allowTransparency=\"true\" src=\"" *) <<32, 32, 32, 32, 32, 32, 32, 32, 32, 32, 32, 32, 32, 32, 32, 32, 32, 32, 32, 32, 97, 108, 108, 111, 119, 84, 114, 97, 110, 115, 112, 97, 114, 101, 110, 99, 121, 61, 34, 116, 114, 117, 101, 34, 32, 115, 114, 99, 61, 34>>,
   after |->
     (* "\">\n" *) <<34, 62, 10>> \o
     (* "                </iframe>\n" *) <<32, 32, 32, 32, 32, 32, 32, 32, 32, 32, 32, 32, 32, 32, 32, 32, 60, 47, 105, 102, 114, 97, 109, 101, 62, 10>> \o
     (* "              " *) <<32, 32, 32, 32, 32, 32, 32, 32, 32, 32, 32, 32, 32, 32>>]

DivTemplate ==
  [before |->
     (* "\n" *) <<10>> \o
     (* "                <div id=\"tipButtonDiv\" class=\"tipButtonDiv\"></div>\n" *) <<32, 32, 32, 32, 32, 32, 32, 32, 32, 32, 32, 32, 32, 32, 32, 32, 60, 100, 105, 118, 32, 105, 100, 61, 34, 116, 105, 112, 66, 117, 116, 116, 111, 110, 68, 105, 118, 34, 32, 99, 108, 97, 115, 115, 61, 34, 116, 105, 112, 66, 117, 116, 116, 111, 110, 68, 105, 118, 34, 62, 60, 47, 100, 105, 118, 62, 10>> \o
     (* "                <div id=\"tipButtonPopup\" class=\"tipButtonPopup\"></div>\n" *) <<32, 32, 32, 32, 32, 32, 32, 32, 32, 32, 32, 32, 32, 32, 32, 32, 60, 100, 105, 118, 32, 105, 100, 61, 34, 116, 105, 112, 66, 117, 116, 116, 111, 110, 80, 111, 112, 117, 112, 34, 32, 99, 108, 97, 115, 115, 61, 34, 116, 105, 112, 66, 117, 116, 116, 111, 110, 80, 111, 112, 117, 112, 34, 62, 60, 47, 100, 105, 118, 62, 10>> \o
     (* "                <script>\n" *) <<32, 32, 32, 32, 32, 32, 32, 32, 32, 32, 32, 32, 32, 32, 32, 32, 60, 115, 99, 114, 105, 112, 116, 62, 10>> \o
     (* "                    $(document).ready(function() {\n" *) <<32, 32, 32, 32, 32, 32, 32, 32, 32, 32, 32, 32, 32, 32, 32, 32, 32, 32, 32, 32, 36, 40, 100, 111, 99, 117, 109, 101, 110, 116, 41, 46, 114, 101, 97, 100, 121, 40, 102, 117, 110, 99, 116, 105, 111, 110, 40, 41, 32, 123, 10>> \o
     (* "                        $(\"#tipButtonDiv\").load(\"" *) <<32, 32, 32, 32, 32, 32, 32, 32, 32, 32, 32, 32, 32, 32, 32, 32, 32, 32, 32, 32, 32, 32, 32, 32, 36, 40, 34, 35, 116, 105, 112, 66, 117, 116, 116, 111, 110, 68, 105, 118, 34, 41, 46, 108, 111, 97, 100, 40, 34>>,
   after |->
     (* "\");\n" *) <<34, 41, 59, 10>> \o
     (* "                    });\n" *) <<32, 32, 32, 32, 32, 32, 32, 32, 32, 32, 32, 32, 32, 32, 32, 32, 32, 32, 32, 32, 125, 41, 59, 10>> \o
     (* "                </script>\n" *) <<32, 32, 32, 32, 32, 32, 32, 32, 32, 32, 32, 32, 32, 32, 32, 32, 60, 47, 115, 99, 114, 105, 112, 116, 62, 10>> \o
     (* "              " *) <<32, 32, 32, 32, 32, 32, 32, 32, 32, 32, 32, 32, 32, 32>>]

Format(template, url) == template.before \o url \o template.after

IsBlank(c) == c = 32 \/ c = 9

\* The number of leading spaces and tabs of a line.
Indent(line) ==
  LET other == {i \in 1..Len(line) : ~IsBlank(line[i])}
  IN  IF other = {} THEN Len(line)
      ELSE (CHOOSE i \in other : \A j \in other : i <= j) - 1

\* The longest common prefix of two texts.
CommonPrefix(a, b) ==
  LET n    == IF Len(a) < Len(b) THEN Len(a) ELSE Len(b)
      diff == {i \in 1..n : a[i] # b[i]}
  IN  IF diff = {} THEN SubSeq(a, 1, n)
      ELSE SubSeq(a, 1, (CHOOSE i \in diff : \A j \in diff : i <= j) - 1)

\* The margin of dedent: the common leading whitespace of the lines that are
\* not blank, from line k on; seen tells whether margin holds a line's yet.
RECURSIVE Margin(_, _, _, _)
Margin(lines, k, seen, margin) ==
  IF k > Len(lines) THEN margin
  ELSE LET line   == lines[k]
           indent == SubSeq(line, 1, Indent(line))
       IN  IF Indent(line) = Len(line) THEN Margin(lines, k + 1, seen, margin)
           ELSE IF ~seen THEN Margin(lines, k + 1, TRUE, indent)
           ELSE Margin(lines, k + 1, TRUE, CommonPrefix(margin, indent))

dedent(text) ==
  LET raw    == Split(text, 10)
      lines  == Tuple([k \in 1..Len(raw) |->
                         IF Indent(raw[k]) = Len(raw[k]) THEN << >> ELSE raw[k]])
      margin == Margin(lines, 1, FALSE, << >>)
  IN  Join(Tuple([k \in 1..Len(lines) |->
                    IF margin # << >> /\ StartsWith(lines[k], margin)
                      THEN SubSeq(lines[k], Len(margin) + 1, Len(lines[k]))
                      ELSE lines[k]]), <<10>>)


(***************************************************************************)
(* MicroPaymentConfig (both modules).  An object is its __dict__, the      *)
(* items in the order __init__ assigns them, with two history fields the   *)
(* properties read: given, the keyword arguments of the constructor call,  *)
(* and constructed_at, the clock at that call.                             *)
(***************************************************************************)
Modules == {"xapo_tools", "micro_payment"}

AttrName ==
  [sender_user_id        |-> (* "sender_user_id" *) <<115, 101, 110, 100, 101, 114, 95, 117, 115, 101, 114, 95, 105, 100>>,
   sender_user_email     |-> (* "sender_user_email" *) <<115, 101, 110, 100, 101, 114, 95, 117, 115, 101, 114, 95, 101, 109, 97, 105, 108>>,
   sender_user_cellphone |-> (* "sender_user_cellphone" *) <<115, 101, 110, 100, 101, 114, 95, 117, 115, 101, 114, 95, 99, 101, 108, 108, 112, 104, 111, 110, 101>>,
   receiver_user_id      |-> (* "receiver_user_id" *) <<114, 101, 99, 101, 105, 118, 101, 114, 95, 117, 115, 101, 114, 95, 105, 100>>,
   receiver_user_email   |-> (* "receiver_user_email" *) <<114, 101, 99, 101, 105, 118, 101, 114, 95, 117, 115, 101, 114, 95, 101, 109, 97, 105, 108>>,
   pay_object_id         |-> (* "pay_object_id" *) <<112, 97, 121, 95, 111, 98, 106, 101, 99, 116, 95, 105, 100>>,
   amount_BIT            |-> (* "amount_BIT" *) <<97, 109, 111, 117, 110, 116, 95, 66, 73, 84>>,
   timestamp             |-> (* "timestamp" *) <<116, 105, 109, 101, 115, 116, 97, 109, 112>>,
   pay_type              |-> (* "pay_type" *) <<112, 97, 121, 95, 116, 121, 112, 101>>]

\* Faulty variant: both classes have the pay_type parameter.
ConfigFieldsWithPayType(module) ==
  <<"sender_user_id", "sender_user_email", "sender_user_cellphone",
    "receiver_user_id", "receiver_user_email", "pay_object_id", "amount_BIT",
    "timestamp", "pay_type">>

\* The parameters of __init__, in the order it assigns them to self.
ConfigFields(module) ==
  <<"sender_user_id", "sender_user_email", "sender_user_cellphone",
    "receiver_user_id", "receiver_user_email", "pay_object_id", "amount_BIT",
    "timestamp">> \o (IF module = "xapo_tools" THEN <<"pay_type">> ELSE << >>)

\* The default of a parameter.  That of timestamp is the value its default
\* expression had when the def statement ran, at the import of the module.
ConfigDefault(module, field) ==
  IF field = "amount_BIT" THEN IntVal(0)
  ELSE IF field = "timestamp" THEN IntVal(defaultTimestamp[module][1])
  ELSE StrVal(<< >>)

\* Faulty variant: only the arguments given become attributes.
MicroPaymentConfigOmittingUnset(module, kwargs) ==
  LET Given(field) == field \in DOMAIN kwargs
      fields == SelectSeq(ConfigFields(module), Given)
  IN  [module |-> module,
       dict   |-> Tuple([i \in 1..Len(fields) |->
                    <<AttrName[fields[i]], kwargs[fields[i]]>>]),
       given  |-> DOMAIN kwargs,
       constructed_at |-> clock]

MicroPaymentConfig(module, kwargs) ==
  LET fields == ConfigFields(module)
  IN  [module |-> module,
       dict   |-> Tuple([i \in 1..Len(fields) |->
                    <<AttrName[fields[i]],
                      IF fields[i] \in DOMAIN kwargs THEN kwargs[fields[i]]
                      ELSE ConfigDefault(module, fields[i])>>]),
       given  |-> DOMAIN kwargs,
       constructed_at |-> clock]

(***************************************************************************)
(* xapo_tools.MicroPayment and micro_payment.XapoMicroPaymentSDK.          *)
(***************************************************************************)
Builder(module, service_url, app_id, app_secret) ==
  [module |-> module, service_url |-> service_url, app_id |-> app_id,
   app_secret |-> app_secret]

MicroPayment(service_url, app_id, app_secret) ==
  Builder("xapo_tools", service_url, app_id, app_secret)

XapoMicroPaymentSDK(service_url, app_id, app_secret) ==
  Builder("micro_payment", service_url, app_id, app_secret)

(***************************************************************************)
(* A call in progress: the function called, its arguments and locals, and  *)
(* pc, the statement it is at.  self and config are positions in builders  *)
(* and configs (0: the call is encrypt, which has neither).                *)
(***************************************************************************)
IdleFrame ==
  [fn |-> "none", module |-> "none", pc |-> "idle", self |-> 0, config |-> 0,
   pay_type |-> << >>, payload |-> << >>, app_secret |-> << >>,
   cipher |-> None, padded_payload |-> << >>, encrypted_payload |-> << >>,
   encoded_payload |-> << >>, json_config |-> << >>,
   encrypted_config |-> << >>, query_str |-> << >>, widget_url |-> << >>,
   result |-> None]

\* encrypt(payload, app_secret) of xapo_utils, _encrypt of micro_payment.
EncryptFrame(module, payload, app_secret) ==
  [IdleFrame EXCEPT !.fn = "encrypt", !.module = module, !.pc = "AES_new",
                    !.payload = payload, !.app_secret = app_secret]

\* self.build_iframe_widget(config[, pay_type]), self.build_div_widget(...).
BuildFrame(fn, module, self, config, pay_type) ==
  [IdleFrame EXCEPT !.fn = fn, !.module = module, !.pc = "json_dumps",
                    !.self = self, !.config = config, !.pay_type = pay_type]

\* json_config = json.dumps(config.__dict__)
StmtJsonDumps(f, config) ==
  [f EXCEPT !.json_config = JsonDumps(config.dict, FALSE), !.pc = "call_encrypt"]

\* ... = encrypt(json_config, self.app_secret): the call
StmtCallEncrypt(f, self) ==
  [f EXCEPT !.payload = f.json_config, !.app_secret = self.app_secret,
            !.pc = "AES_new"]

\* The text of the button: config.pay_type in xapo_tools, the pay_type
\* argument in micro_payment.
ButtonText(f, config) ==
  IF f.module = "xapo_tools" THEN DictGet(config.dict, AttrName.pay_type)
  ELSE StrVal(f.pay_type)

\* urlencode(query) for query = {"app_id": ..., "button_request": ...,
\* "customization": ...}, button_text the value config.pay_type gave.
QueryStr(f, self, button_text) ==
  IF button_text = None THEN Raise("AttributeError")
  ELSE urlencode(<< <<(* "app_id" *) <<97, 112, 112, 95, 105, 100>>, self.app_id>>,
                    <<(* "button_request" *) <<98, 117, 116, 116, 111, 110, 95, 114, 101, 113, 117, 101, 115, 116>>, f.encrypted_config>>,
                    <<(* "customization" *) <<99, 117, 115, 116, 111, 109, 105, 122, 97, 116, 105, 111, 110>>,
                      JsonDumps(<< <<(* "button_text" *) <<98, 117, 116, 116, 111, 110, 95, 116, 101, 120, 116>>, button_text>> >>, TRUE)>> >>)

\* query_str is assigned, or the exception ends the call.
StoreQueryStr(f, query_str) ==
  IF ~query_str.ok THEN [f EXCEPT !.pc = "done", !.result = query_str]
  ELSE [f EXCEPT !.query_str = query_str.value, !.pc = "widget_url"]

\* query = {...}; query_str = urlencode(query)
StmtUrlencode(f, self, config) ==
  StoreQueryStr(f, QueryStr(f, self, ButtonText(f, config)))

\* widget_url = self.service_url + "?" + query_str
StmtWidgetUrl(f, self) ==
  [f EXCEPT !.widget_url = self.service_url \o (* "?" *) <<63>> \o f.query_str,
            !.pc = "snippet"]

\* snippet = """...""".format(url=widget_url); return textwrap.dedent(snippet)
StmtSnippet(f) ==
  LET template == IF f.fn = "build_iframe_widget" THEN IframeTemplate
                  ELSE DivTemplate
  IN  [f EXCEPT !.pc = "done",
                !.result = Return(dedent(Format(template, f.widget_url)))]

\* The next statement of call f, on builder self and config object config.
Step(f, self, config) ==
  CASE f.pc = "json_dumps"     -> StmtJsonDumps(f, config)
    [] f.pc = "call_encrypt"   -> StmtCallEncrypt(f, self)
    [] f.pc = "AES_new"        -> StmtAESNew(f)
    [] f.pc = "padding"        -> StmtPadding(f)
    [] f.pc = "cipher_encrypt" -> StmtCipherEncrypt(f)
    [] f.pc = "b64encode"      -> StmtB64Encode(f)
    [] f.pc = "urlencode"      -> StmtUrlencode(f, self, config)
    [] f.pc = "widget_url"     -> StmtWidgetUrl(f, self)
    [] f.pc = "snippet"        -> StmtSnippet(f)
    [] OTHER                   -> f

\* Call f run to its end with nothing else running.
RECURSIVE Run(_, _, _)
Run(f, self, config) ==
  IF f.pc \in {"done", "idle"} THEN f ELSE Run(Step(f, self, config), self, config)

(***************************************************************************)
(* The actions: the import of a module, the clock, the constructors, and   *)
(* for each caller t the statements of the call it is in.                  *)
(***************************************************************************)
\* The default of a module whose def statements have not run.
NotImported == << >>

Imported(module) == defaultTimestamp[module] # NotImported

\* import xapo_tools / import micro_payment: the def statements run, and
\* int(round(time.time() * 1000)) is evaluated as the default of timestamp.
Import(module) ==
  /\ ~Imported(module)
  /\ defaultTimestamp' = [defaultTimestamp EXCEPT ![module] = <<clock>>]
  /\ UNCHANGED <<clock, interpreter, configs, builders, frames>>

Tick(max) ==
  /\ clock < max
  /\ clock' = clock + 1
  /\ UNCHANGED <<interpreter, defaultTimestamp, configs, builders, frames>>

NewConfig(module, kwargs, max) ==
  /\ Imported(module)
  /\ Len(configs) < max
  /\ configs' = Append(configs, MicroPaymentConfig(module, kwargs))
  /\ UNCHANGED <<clock, interpreter, defaultTimestamp, builders, frames>>

CallEncrypt(t, module, payload, app_secret) ==
  /\ frames[t].pc = "idle"
  /\ Imported(module)
  /\ frames' = [frames EXCEPT ![t] = EncryptFrame(module, payload, app_secret)]
  /\ UNCHANGED <<clock, interpreter, defaultTimestamp, configs, builders>>

\* A build call on a builder, with any config object; pay_type is a
\* parameter in micro_payment only.
CallBuild(t, fn, self, config, pay_type) ==
  /\ frames[t].pc = "idle"
  /\ self \in 1..Len(builders)
  /\ config \in 1..Len(configs)
  /\ builders[self].module = "xapo_tools" => pay_type = << >>
  /\ frames' = [frames EXCEPT ![t] =
                  BuildFrame(fn, builders[self].module, self, config, pay_type)]
  /\ UNCHANGED <<clock, interpreter, defaultTimestamp, configs, builders>>

\* Statement pc of the call of caller t.
AtStmt(t, pc) == frames[t].pc = pc

Exec(t, next) ==
  /\ frames' = [frames EXCEPT ![t] = next]
  /\ UNCHANGED <<clock, interpreter, defaultTimestamp, configs, builders>>

\* Faulty variant: the call stores its pay_type in the config object before
\* it serializes it.
DoJsonDumpsStoringPayType(t) ==
  /\ AtStmt(t, "json_dumps")
  /\ LET c      == frames[t].config
         d      == configs[c].dict
         item   == <<AttrName.pay_type, StrVal(frames[t].pay_type)>>
         at     == {i \in 1..Len(d) : d[i][1] = AttrName.pay_type}
         stored == [configs[c] EXCEPT !.dict =
                      IF at = {} THEN Append(d, item)
                      ELSE [d EXCEPT ![CHOOSE i \in at : TRUE] = item]]
     IN  /\ configs' = [configs EXCEPT ![c] = stored]
         /\ frames' = [frames EXCEPT ![t] = StmtJsonDumps(frames[t], stored)]
  /\ UNCHANGED <<clock, interpreter, defaultTimestamp, builders>>

DoJsonDumps(t) ==
  /\ AtStmt(t, "json_dumps")
  /\ Exec(t, StmtJsonDumps(frames[t], configs[frames[t].config]))

DoCallEncrypt(t) ==
  /\ AtStmt(t, "call_encrypt")
  /\ Exec(t, StmtCallEncrypt(frames[t], builders[frames[t].self]))

DoAESNew(t) == AtStmt(t, "AES_new") /\ Exec(t, StmtAESNew(frames[t]))

DoPadding(t) == AtStmt(t, "padding") /\ Exec(t, StmtPadding(frames[t]))

DoCipherEncrypt(t) ==
  AtStmt(t, "cipher_encrypt") /\ Exec(t, StmtCipherEncrypt(frames[t]))

DoB64Encode(t) == AtStmt(t, "b64encode") /\ Exec(t, StmtB64Encode(frames[t]))

DoUrlencode(t) ==
  /\ AtStmt(t, "urlencode")
  /\ Exec(t, StmtUrlencode(frames[t], builders[frames[t].self],
                           configs[frames[t].config]))

DoWidgetUrl(t) ==
  /\ AtStmt(t, "widget_url")
  /\ Exec(t, StmtWidgetUrl(frames[t], builders[frames[t].self]))

DoSnippet(t) == AtStmt(t, "snippet") /\ Exec(t, StmtSnippet(frames[t]))

\* The call returns (or its exception reaches the caller).
Finish(t) == AtStmt(t, "done") /\ Exec(t, IdleFrame)


(***************************************************************************)
(* The inputs and the specifications.                                      *)
(***************************************************************************)
Callers == {"c1", "c2"}

\* The hash seeds of the Python 3.4 and 3.5 processes: PYTHONHASHSEED values
\* under which the three keys of query are iterated in each of their six
\* orders.
HashSeeds == {0, 2, 8, 10, 12, 17}

Python27 == Interpreter("2.7", 0)

Python36 == Interpreter("3.6", 0)

Python37 == Interpreter("3.7", 0)

Interpreters ==
  {Python27, Python36, Python37}
  \cup {Interpreter("3.5", seed) : seed \in HashSeeds}

MaxPayloadLen == 33

MaxClock == 2

MaxConfigs == 2

\* Secrets of 16, 24 and 32 characters (the last the one of the doctests),
\* and of 15 and 20.
Key16 == (* "c533a6e606fb62cc" *) <<99, 53, 51, 51, 97, 54, 101, 54, 48, 54, 102, 98, 54, 50, 99, 99>>

Key24 == (* "c533a6e606fb62ccb13e8baf" *) <<99, 53, 51, 51, 97, 54, 101, 54, 48, 54, 102, 98, 54, 50, 99, 99, 98, 49, 51, 101, 56, 98, 97, 102>>

Key32 == (* "c533a6e606fb62ccb13e8baf8a95cbdc" *) <<99, 53, 51, 51, 97, 54, 101, 54, 48, 54, 102, 98, 54, 50, 99, 99, 98, 49, 51, 101, 56, 98, 97, 102, 56, 97, 57, 53, 99, 98, 100, 99>>

Key15 == (* "c533a6e606fb62c" *) <<99, 53, 51, 51, 97, 54, 101, 54, 48, 54, 102, 98, 54, 50, 99>>

Key20 == (* "c533a6e606fb62ccb13e" *) <<99, 53, 51, 51, 97, 54, 101, 54, 48, 54, 102, 98, 54, 50, 99, 99, 98, 49, 51, 101>>

SampleText ==
  (* "{\"sender_user_id\":\"s160901\",\"sender_user_email\":\"fernando.taboada@gmail.com\"}" *) <<123, 34, 115, 101, 110, 100, 101, 114, 95, 117, 115, 101, 114, 95, 105, 100, 34, 58, 34, 115, 49, 54, 48, 57, 48, 49, 34, 44, 34, 115, 101, 110, 100, 101, 114, 95, 117, 115, 101, 114, 95, 101, 109, 97, 105, 108, 34, 58, 34, 102, 101, 114, 110, 97, 110, 100, 111, 46, 116, 97, 98, 111, 97, 100, 97, 64, 103, 109, 97, 105, 108, 46, 99, 111, 109, 34, 125>>

\* Payloads of every length up to MaxPayloadLen.
PayloadsByLength == {SubSeq(SampleText, 1, n) : n \in 0..MaxPayloadLen}

\* Payloads of equal blocks, payloads that end like padding, payloads with
\* characters of two and three bytes in UTF-8, and one with a lone surrogate.
SpecialPayloads ==
  {Repeat(65, 32), Repeat(65, 16) \o (* "0123456789abcdef" *) <<48, 49, 50, 51, 52, 53, 54, 55, 56, 57, 97, 98, 99, 100, 101, 102>> \o Repeat(65, 16),
   (* "ab\x02\x02" *) <<97, 98, 2, 2>>, (* "0123456789abcde\x01" *) <<48, 49, 50, 51, 52, 53, 54, 55, 56, 57, 97, 98, 99, 100, 101, 1>>,
   <<233>>, (* "caf" *) <<99, 97, 102>> \o <<233>>, Repeat(233, 16), (* "15 " *) <<49, 53, 32>> \o <<8364>>,
   (* "ab" *) <<97, 98>> \o <<55296>>}

ServiceUrl == (* "http://dev.xapo.com:8089/pay_button/show" *) <<104, 116, 116, 112, 58, 47, 47, 100, 101, 118, 46, 120, 97, 112, 111, 46, 99, 111, 109, 58, 56, 48, 56, 57, 47, 112, 97, 121, 95, 98, 117, 116, 116, 111, 110, 47, 115, 104, 111, 119>>

ServiceUrlWithQuery == (* "http://dev.xapo.com:8089/pay_button/show?lang=en" *) <<104, 116, 116, 112, 58, 47, 47, 100, 101, 118, 46, 120, 97, 112, 111, 46, 99, 111, 109, 58, 56, 48, 56, 57, 47, 112, 97, 121, 95, 98, 117, 116, 116, 111, 110, 47, 115, 104, 111, 119, 63, 108, 97, 110, 103, 61, 101, 110>>

ServiceUrlWithFragment == (* "http://dev.xapo.com:8089/pay_button/show#top" *) <<104, 116, 116, 112, 58, 47, 47, 100, 101, 118, 46, 120, 97, 112, 111, 46, 99, 111, 109, 58, 56, 48, 56, 57, 47, 112, 97, 121, 95, 98, 117, 116, 116, 111, 110, 47, 115, 104, 111, 119, 35, 116, 111, 112>>

AppId == (* "b91014cc28c94841" *) <<98, 57, 49, 48, 49, 52, 99, 99, 50, 56, 99, 57, 52, 56, 52, 49>>

AppIdQuoted == (* "b9 10/14&cc=28+c9~%" *) <<98, 57, 32, 49, 48, 47, 49, 52, 38, 99, 99, 61, 50, 56, 43, 99, 57, 126, 37>>

\* An app_id with a lone surrogate ("\ud800").
AppIdSurrogate == (* "b91014cc" *) <<98, 57, 49, 48, 49, 52, 99, 99>> \o <<55296>>

\* The keyword arguments of the constructor calls: none, those of the
\* doctests, and some with a timestamp and a text that json.dumps escapes.
NoKwargs == << >>

DoctestKwargs(module) ==
  LET common ==
        [sender_user_email     |-> StrVal((* "sender@xapo.com" *) <<115, 101, 110, 100, 101, 114, 64, 120, 97, 112, 111, 46, 99, 111, 109>>),
         sender_user_cellphone |-> StrVal((* "+5491112341234" *) <<43, 53, 52, 57, 49, 49, 49, 50, 51, 52, 49, 50, 51, 52>>),
         receiver_user_id      |-> StrVal((* "r0210" *) <<114, 48, 50, 49, 48>>),
         receiver_user_email   |-> StrVal((* "fernando.taboada@xapo.com" *) <<102, 101, 114, 110, 97, 110, 100, 111, 46, 116, 97, 98, 111, 97, 100, 97, 64, 120, 97, 112, 111, 46, 99, 111, 109>>),
         pay_object_id         |-> StrVal((* "to0210" *) <<116, 111, 48, 50, 49, 48>>),
         amount_BIT            |-> FloatVal((* "0.01" *) <<48, 46, 48, 49>>)]
  IN  IF module = "xapo_tools"
        THEN [f \in DOMAIN common \cup {"pay_type"} |->
                IF f = "pay_type" THEN StrVal((* "Tip" *) <<84, 105, 112>>) ELSE common[f]]
        ELSE common

TimestampKwargs(module) ==
  LET common ==
        [receiver_user_id |-> StrVal((* "r \"0210\"" *) <<114, 32, 34, 48, 50, 49, 48, 34>> \o <<233>>),
         amount_BIT       |-> IntVal(5),
         timestamp        |-> IntVal(1410973639)]
  IN  IF module = "xapo_tools"
        THEN [f \in DOMAIN common \cup {"pay_type"} |->
                IF f = "pay_type" THEN StrVal((* "Donate & go" *) <<68, 111, 110, 97, 116, 101, 32, 38, 32, 103, 111>>) ELSE common[f]]
        ELSE common

ConfigKwargs(module) ==
  <<NoKwargs, DoctestKwargs(module), TimestampKwargs(module)>>

PayTypes == {(* "Tip" *) <<84, 105, 112>>, (* "Pay now " *) <<80, 97, 121, 32, 110, 111, 119, 32>> \o <<233>>}

BuildFns == {"build_iframe_widget", "build_div_widget"}

Idle == [t \in Callers |-> IdleFrame]

EncryptStatement(t) ==
  \/ DoAESNew(t)
  \/ DoPadding(t)
  \/ DoCipherEncrypt(t)
  \/ DoB64Encode(t)
  \/ Finish(t)

BuildStatement(t) ==
  \/ DoJsonDumps(t)
  \/ DoCallEncrypt(t)
  \/ DoUrlencode(t)
  \/ DoWidgetUrl(t)
  \/ DoSnippet(t)

(***************************************************************************)
(* SpecCodec: one caller calls encrypt, on payloads of every length and    *)
(* secrets of every kind, under Python 2.7 and Python 3.                   *)
(***************************************************************************)
InitCodec ==
  /\ clock = 0
  /\ interpreter \in {Python27, Python37}
  /\ defaultTimestamp = [m \in Modules |-> <<0>>]
  /\ configs = << >>
  /\ builders = << >>
  /\ frames = Idle

NextCodec ==
  \/ \E module \in Modules, payload \in PayloadsByLength \cup SpecialPayloads,
        app_secret \in {Key16, Key24, Key32, Key15, Key20} :
       CallEncrypt("c1", module, payload, app_secret)
  \/ EncryptStatement("c1")

SpecCodec == InitCodec /\ [][NextCodec]_vars

(***************************************************************************)
(* Spec: one caller, under any interpreter, with one builder and one       *)
(* config, each of either module and constructed from any of the inputs;   *)
(* the caller builds widgets.                                              *)
(***************************************************************************)
BuilderArgs ==
  {<<ServiceUrl, AppId>>, <<ServiceUrl, AppIdQuoted>>,
   <<ServiceUrl, AppIdSurrogate>>, <<ServiceUrlWithQuery, AppId>>,
   <<ServiceUrlWithFragment, AppId>>}

Init ==
  /\ clock = 0
  /\ interpreter \in Interpreters
  /\ defaultTimestamp = [m \in Modules |-> <<0>>]
  /\ frames = Idle
  /\ \E module \in Modules, args \in BuilderArgs, app_secret \in {Key32, Key15} :
       builders = <<Builder(module, args[1], args[2], app_secret)>>
  /\ \E module \in Modules :
       \E k \in 1..Len(ConfigKwargs(module)) :
         configs = <<MicroPaymentConfig(module, ConfigKwargs(module)[k])>>

Next ==
  \/ \E fn \in BuildFns, pay_type \in {<< >>, (* "Pay now " *) <<80, 97, 121, 32, 110, 111, 119, 32>> \o <<233>>} :
       CallBuild("c1", fn, 1, 1, pay_type)
  \/ EncryptStatement("c1")
  \/ BuildStatement("c1")

Spec == Init /\ [][Next]_vars

(***************************************************************************)
(* SpecKeys: one caller, a builder with a secret of any of the lengths and *)
(* a config of its module; the caller builds widgets and calls encrypt.    *)
(***************************************************************************)
InitKeys ==
  /\ clock = 0
  /\ interpreter \in {Python27, Python36}
  /\ defaultTimestamp = [m \in Modules |-> <<0>>]
  /\ frames = Idle
  /\ \E module \in Modules :
       /\ \E app_secret \in {Key16, Key24, Key32, Key15, Key20} :
            builders = <<Builder(module, ServiceUrl, AppId, app_secret)>>
       /\ configs = <<MicroPaymentConfig(module, DoctestKwargs(module))>>

NextKeys ==
  \/ \E fn \in BuildFns, pay_type \in {<< >>, (* "Tip" *) <<84, 105, 112>>} :
       CallBuild("c1", fn, 1, 1, pay_type)
  \/ \E payload \in {<< >>, (* "{\"amount_BIT\": 0}" *) <<123, 34, 97, 109, 111, 117, 110, 116, 95, 66, 73, 84, 34, 58, 32, 48, 125>>},
        app_secret \in {Key16, Key24, Key32, Key15, Key20} :
       CallEncrypt("c1", builders[1].module, payload, app_secret)
  \/ EncryptStatement("c1")
  \/ BuildStatement("c1")

SpecKeys == InitKeys /\ [][NextKeys]_vars

(***************************************************************************)
(* SpecPayType: one caller, a builder and a config, each of either module; *)
(* the caller builds widgets with one pay_type and another.                *)
(***************************************************************************)
InitPayType ==
  /\ clock = 0
  /\ interpreter \in Interpreters
  /\ defaultTimestamp = [m \in Modules |-> <<0>>]
  /\ frames = Idle
  /\ \E module \in Modules :
       builders = <<Builder(module, ServiceUrl, AppId, Key16)>>
  /\ \E module \in Modules :
       \E kwargs \in {NoKwargs, DoctestKwargs(module)} :
         configs = <<MicroPaymentConfig(module, kwargs)>>

NextPayType ==
  \/ \E fn \in BuildFns, pay_type \in PayTypes \cup {<< >>} :
       CallBuild("c1", fn, 1, 1, pay_type)
  \/ EncryptStatement("c1")
  \/ BuildStatement("c1")

SpecPayType == InitPayType /\ [][NextPayType]_vars

(***************************************************************************)
(* SpecDet: two callers call encrypt (of either module) and build widgets  *)
(* while the clock runs, so that calls with the same arguments have other  *)
(* calls and other times between them.                                     *)
(***************************************************************************)
InitDet ==
  /\ clock = 0
  /\ interpreter = Python37
  /\ defaultTimestamp = [m \in Modules |-> <<0>>]
  /\ frames = Idle
  /\ builders = <<MicroPayment(ServiceUrl, AppId, Key32)>>
  /\ configs = <<MicroPaymentConfig("xapo_tools", DoctestKwargs("xapo_tools"))>>

NextDet ==
  \/ Tick(MaxClock)
  \/ \E t \in Callers :
       \/ \E module \in Modules,
             payload \in {Repeat(65, 32), JsonDumps(configs[1].dict, FALSE)},
             app_secret \in {Key16, Key32} :
            CallEncrypt(t, module, payload, app_secret)
       \/ CallBuild(t, "build_iframe_widget", 1, 1, << >>)
       \/ EncryptStatement(t)
       \/ BuildStatement(t)

SpecDet == InitDet /\ [][NextDet]_vars

(***************************************************************************)
(* SpecConc: two callers build widgets at the same time, statement by      *)
(* statement, on two builders and two configs they share, each builder     *)
(* with each config.                                                       *)
(***************************************************************************)
InitConc ==
  /\ clock = 0
  /\ interpreter = Python27
  /\ defaultTimestamp = [m \in Modules |-> <<0>>]
  /\ frames = Idle
  /\ builders = <<MicroPayment(ServiceUrl, AppId, Key32),
                  XapoMicroPaymentSDK(ServiceUrl, AppIdQuoted, Key16)>>
  /\ configs = <<MicroPaymentConfig("xapo_tools", DoctestKwargs("xapo_tools")),
                 MicroPaymentConfig("micro_payment", NoKwargs)>>

NextConc ==
  \E t \in Callers :
    \/ \E fn \in BuildFns, self \in 1..2, config \in 1..2 :
         CallBuild(t, fn, self, config,
                   IF self = 1 THEN << >> ELSE (* "Pay now " *) <<80, 97, 121, 32, 110, 111, 119, 32>> \o <<233>>)
    \/ EncryptStatement(t)
    \/ BuildStatement(t)

SpecConc == InitConc /\ [][NextConc]_vars

(***************************************************************************)
(* SpecClock: the modules are imported and configs constructed while the   *)
(* clock runs.                                                             *)
(***************************************************************************)
InitClock ==
  /\ clock = 0
  /\ interpreter = Python36
  /\ defaultTimestamp = [m \in Modules |-> NotImported]
  /\ configs = << >>
  /\ builders = << >>
  /\ frames = Idle

NextClock ==
  \/ Tick(MaxClock)
  \/ \E module \in Modules : Import(module)
  \/ \E module \in Modules :
       \E k \in 1..Len(ConfigKwargs(module)) :
         NewConfig(module, ConfigKwargs(module)[k], MaxConfigs)

SpecClock == InitClock /\ [][NextClock]_vars

(***************************************************************************)
(* The receiving side, which the properties below are stated with: what a  *)
(* receiver of a widget does to the output.  None of it is code of the     *)
(* SDK: base64 decoding, the inverse cipher of FIPS 197 (section 5.3),     *)
(* the removal of the padding, and the parsing of a URL's query string.    *)
(***************************************************************************)
\* The bytes of a text that has an encoding in UTF-8.
Bytes(text) == Utf8(text).value

EndsWith(s, p) == Len(p) <= Len(s) /\ SubSeq(s, Len(s) - Len(p) + 1, Len(s)) = p

\* The positions at which p occurs in s.
Occurrences(s, p) ==
  {i \in 1..(Len(s) - Len(p) + 1) : SubSeq(s, i, i + Len(p) - 1) = p}

B64Index(c) == (CHOOSE i \in 1..64 : B64Alphabet[i] = c) - 1

B64DecodeGroup(g) ==
  LET n  == Cardinality({i \in 1..4 : g[i] # B64Pad[1]})
      v1 == B64Index(g[1])
      v2 == B64Index(g[2])
      v3 == IF n >= 3 THEN B64Index(g[3]) ELSE 0
      v4 == IF n >= 4 THEN B64Index(g[4]) ELSE 0
  IN  <<4 * v1 + (v2 \div 16)>>
      \o (IF n >= 3 THEN <<16 * (v2 % 16) + (v3 \div 4)>> ELSE << >>)
      \o (IF n >= 4 THEN <<64 * (v3 % 4) + v4>> ELSE << >>)

b64decode(text) ==
  Flatten(Tuple([g \in 1..(Len(text) \div 4) |->
                   B64DecodeGroup(SubSeq(text, 4 * g - 3, 4 * g))]))

InvSBox ==
  <<  82,   9, 106, 213,  48,  54, 165,  56, 191,  64, 163, 158, 129, 243, 215, 251,
     124, 227,  57, 130, 155,  47, 255, 135,  52, 142,  67,  68, 196, 222, 233, 203,
      84, 123, 148,  50, 166, 194,  35,  61, 238,  76, 149,  11,  66, 250, 195,  78,
       8,  46, 161, 102,  40, 217,  36, 178, 118,  91, 162,  73, 109, 139, 209,  37,
     114, 248, 246, 100, 134, 104, 152,  22, 212, 164,  92, 204,  93, 101, 182, 146,
     108, 112,  72,  80, 253, 237, 185, 218,  94,  21,  70,  87, 167, 141, 157, 132,
     144, 216, 171,   0, 140, 188, 211,  10, 247, 228,  88,   5, 184, 179,  69,   6,
     208,  44,  30, 143, 202,  63,  15,   2, 193, 175, 189,   3,   1,  19, 138, 107,
      58, 145,  17,  65,  79, 103, 220, 234, 151, 242, 207, 206, 240, 180, 230, 115,
     150, 172, 116,  34, 231, 173,  53, 133, 226, 249,  55, 232,  28, 117, 223, 110,
      71, 241,  26, 113,  29,  41, 197, 137, 111, 183,  98,  14, 170,  24, 190,  27,
     252,  86,  62,  75, 198, 210, 121,  32, 154, 219, 192, 254, 120, 205,  90, 244,
      31, 221, 168,  51, 136,   7, 199,  49, 177,  18,  16,  89,  39, 128, 236,  95,
      96,  81, 127, 169,  25, 181,  74,  13,  45, 229, 122, 159, 147, 201, 156, 239,
     160, 224,  59,  77, 174,  42, 245, 176, 200, 235, 187,  60, 131,  83, 153,  97,
      23,  43,   4, 126, 186, 119, 214,  38, 225, 105,  20,  99,  85,  33,  12, 125 >>

InvSubBytes(s) == Tuple([i \in 1..Len(s) |-> InvSBox[s[i] + 1]])

InvShiftRows(s) ==
  Tuple([i \in 1..16 |-> LET r == (i - 1) % 4
                             c == (i - 1) \div 4
                         IN  s[r + 4 * ((c + 4 - r) % 4) + 1]])

\* a times 9, 11, 13 and 14 in GF(2^8).
Times(a, n) ==
  LET x2 == xtime(a)
      x4 == xtime(x2)
      x8 == xtime(x4)
  IN  CASE n = 9  -> Xor(x8, a)
        [] n = 11 -> Xor(x8, Xor(x2, a))
        [] n = 13 -> Xor(x8, Xor(x4, a))
        [] n = 14 -> Xor(x8, Xor(x4, x2))

InvMixColumns(s) ==
  Tuple([i \in 1..16 |->
     LET r  == (i - 1) % 4
         c0 == 4 * ((i - 1) \div 4)
         a0 == s[c0 + r + 1]
         a1 == s[c0 + ((r + 1) % 4) + 1]
         a2 == s[c0 + ((r + 2) % 4) + 1]
         a3 == s[c0 + ((r + 3) % 4) + 1]
     IN  Xor(Xor(Times(a0, 14), Times(a1, 11)),
             Xor(Times(a2, 13), Times(a3, 9)))])

RECURSIVE InvRounds(_, _, _)
InvRounds(s, w, round) ==
  IF Len(s) = 16 /\ round > 0
    THEN InvRounds(InvMixColumns(AddRoundKey(InvSubBytes(InvShiftRows(s)),
                                             RoundKey(w, round))), w, round - 1)
    ELSE AddRoundKey(InvSubBytes(InvShiftRows(s)), RoundKey(w, 0))

InvCipher(block, w) ==
  LET Nr == (Len(w) \div 16) - 1
  IN  InvRounds(AddRoundKey(block, RoundKey(w, Nr)), w, Nr - 1)

\* AES.new(key, AES.MODE_ECB).decrypt(data): block by block.
DecryptECB(data, w) ==
  Flatten(Tuple([b \in 1..(Len(data) \div 16) |->
                   InvCipher(SubSeq(data, 16 * b - 15, 16 * b), w)]))

\* The last element says how many elements to remove.
Unpad(data) == SubSeq(data, 1, Len(data) - data[Len(data)])

\* base64-decode, decrypt in ECB mode under the same key, remove the padding.
Decrypt(encoded, key) ==
  Unpad(DecryptECB(b64decode(encoded), KeyExpansion(Bytes(key))))

HexValue(c) ==
  IF c \in Range(DecDigits) THEN c - 48
  ELSE IF c \in Range(HexDigitsUpper) THEN c - 55
  ELSE c - 87

\* urllib.parse.unquote_plus, on text whose every "%" starts an escape.
unquote_plus(s) ==
  Flatten(Tuple([i \in 1..Len(s) |->
    IF s[i] = 37 THEN <<16 * HexValue(s[i + 1]) + HexValue(s[i + 2])>>
    ELSE IF (i > 1 /\ s[i - 1] = 37) \/ (i > 2 /\ s[i - 2] = 37) THEN << >>
    ELSE IF s[i] = 43 THEN <<32>>
    ELSE <<s[i]>>]))

\* The query component of a URL (RFC 3986, urllib.parse.urlsplit): the
\* fragment is what follows the first "#", the query what follows the first
\* "?" before it.
UrlQuery(url) ==
  LET h    == Find(url, 35)
      head == IF h = 0 THEN url ELSE SubSeq(url, 1, h - 1)
      q    == Find(head, 63)
  IN  IF q = 0 THEN << >> ELSE SubSeq(head, q + 1, Len(head))

\* urllib.parse.parse_qsl: the (name, value) pairs of a query string.
parse_qsl(query) ==
  LET fields == Split(query, 38)
  IN  Tuple([i \in 1..Len(fields) |->
        LET eq == Find(fields[i], 61)
        IN  IF eq = 0 THEN <<unquote_plus(fields[i]), << >> >>
            ELSE <<unquote_plus(SubSeq(fields[i], 1, eq - 1)),
                   unquote_plus(SubSeq(fields[i], eq + 1, Len(fields[i])))>>])

\* The values a query gives the name.
QueryValues(query, name) ==
  LET pairs == parse_qsl(query)
  IN  {pairs[i][2] : i \in {j \in 1..Len(pairs) : pairs[j][1] = name}}

\* json.loads of a string literal's inside: the escapes of json.dumps undone
\* (characters outside the BMP, which are two \u escapes, are not needed).
RECURSIVE JsonUnescape(_)
JsonUnescape(s) ==
  IF s = << >> THEN << >>
  ELSE IF s[1] # 92 THEN <<s[1]>> \o JsonUnescape(Tail(s))
  ELSE IF s[2] = 117
    THEN <<4096 * HexValue(s[3]) + 256 * HexValue(s[4])
           + 16 * HexValue(s[5]) + HexValue(s[6])>>
         \o JsonUnescape(SubSeq(s, 7, Len(s)))
  ELSE <<CASE s[2] = 110 -> 10 [] s[2] = 114 -> 13 [] s[2] = 116 -> 9
           [] s[2] = 98 -> 8 [] s[2] = 102 -> 12 [] OTHER -> s[2]>>
       \o JsonUnescape(SubSeq(s, 3, Len(s)))

\* json.loads(text) of an object with the one member name, a string: the
\* string, None when text is no such object.
JsonObjectOfOne(text, name) ==
  LET open  == (* "{\"" *) <<123, 34>> \o name \o (* "\": \"" *) <<34, 58, 32, 34>>
      close == (* "\"}" *) <<34, 125>>
  IN  IF StartsWith(text, open) /\ EndsWith(text, close)
         /\ Len(text) >= Len(open) + Len(close)
        THEN StrVal(JsonUnescape(SubSeq(text, Len(open) + 1,
                                        Len(text) - Len(close))))
        ELSE None

\* The number of members of the JSON object text whose name is name.  (A
\* quotation mark inside a string is escaped, so that the name in quotation
\* marks followed by a colon occurs only where a member starts.)
JsonMembers(text, name) ==
  Cardinality(Occurrences(text, (* "\"" *) <<34>> \o name \o (* "\": " *) <<34, 58, 32>>))

\* Whether the JSON object text has the member name with the value literal.
JsonHasMember(text, name, literal) ==
  \E i \in Occurrences(text, (* "\"" *) <<34>> \o name \o (* "\": " *) <<34, 58, 32>> \o literal) :
    LET end == i + Len(name) + 4 + Len(literal)
    IN  end <= Len(text) /\ text[end] \in {44, 125}

(***************************************************************************)
(* The properties.                                                         *)
(***************************************************************************)
IsEncrypt(f) == f.fn = "encrypt"

IsBuild(f) == f.fn \in BuildFns

\* The secret a call encrypts with.
SecretOf(f) == IF IsEncrypt(f) THEN f.app_secret ELSE builders[f.self].app_secret

\* The pay_type of a build call: the config's in xapo_tools, the argument in
\* micro_payment.
PayTypeOf(f) ==
  IF f.module = "xapo_tools"
    THEN DictGet(configs[f.config].dict, AttrName.pay_type)
    ELSE StrVal(f.pay_type)

\* C1: the padding step returns the payload followed by exactly p elements of
\* value p, with 1 <= p <= 16 and (n + p) mod 16 = 0 for a payload of n
\* elements; a payload of a whole number of blocks (n = 0 too) gets sixteen
\* 16s.
C1_PaddingAppendsPTimesP ==
  \A t \in Callers :
    frames[t].pc = "cipher_encrypt" =>
      LET n   == Len(frames[t].payload)
          out == frames[t].padded_payload
          p   == Len(out) - n
      IN  /\ p \in 1..16
          /\ (n + p) % 16 = 0
          /\ SubSeq(out, 1, n) = frames[t].payload
          /\ \A i \in (n + 1)..(n + p) : out[i] = p
          /\ n % 16 = 0 => p = 16

\* C1, its case: a payload of two whole blocks has been padded with a third.
C1_FullBlockAppended ==
  \E t \in Callers :
    /\ frames[t].pc = "cipher_encrypt"
    /\ frames[t].module = "xapo_tools"
    /\ Len(frames[t].payload) = 32
    /\ frames[t].padded_payload = frames[t].payload \o Repeat(16, 16)

\* C2 as the specification states it: a call with a secret that is not 16
\* bytes long fails.
C2_OnlySixteenByteSecrets ==
  \A t \in Callers :
    (frames[t].pc = "done" /\ Len(Bytes(SecretOf(frames[t]))) # 16) =>
      ~frames[t].result.ok

\* C2, amended: a call with a secret that is not 16, 24 or 32 bytes long
\* (encrypt, or a build on a builder with such a secret) fails with
\* ValueError where the cipher is made, having produced no output.
C2_InvalidKeyLengthFails ==
  \A t \in Callers :
    (frames[t].fn # "none"
       /\ Len(Bytes(SecretOf(frames[t]))) \notin {16, 24, 32}) =>
      /\ frames[t].pc \in {"json_dumps", "call_encrypt", "AES_new", "done"}
      /\ frames[t].pc = "done" => frames[t].result = Raise("ValueError")
      /\ frames[t].encoded_payload = << >>
      /\ frames[t].widget_url = << >>

\* C2, its case: a build on a builder with a secret of 15 bytes has failed.
C2_BuildWithShortSecretFailed ==
  \E t \in Callers :
    /\ IsBuild(frames[t])
    /\ frames[t].pc = "done"
    /\ Len(SecretOf(frames[t])) = 15
    /\ ~frames[t].result.ok

\* C3 as the specification states it: a config constructed without a
\* timestamp has the clock of its construction as its timestamp.
C3_TimestampOfConstruction ==
  \A i \in 1..Len(configs) :
    "timestamp" \notin configs[i].given =>
      DictGet(configs[i].dict, AttrName.timestamp)
        = IntVal(configs[i].constructed_at)

\* C4: base64-decoding what encrypt returns, decrypting it block by block
\* under the same key and removing the p last elements, p the last element,
\* gives the payload back; and encrypt returns for every payload of ASCII
\* characters and every key of 16, 24 or 32 bytes.
C4_RoundTrip ==
  \A t \in Callers :
    (IsEncrypt(frames[t]) /\ frames[t].pc = "done") =>
      /\ (IsAscii(frames[t].payload)
            /\ Len(Bytes(frames[t].app_secret)) \in {16, 24, 32}) =>
           frames[t].result.ok
      /\ frames[t].result.ok =>
           Decrypt(frames[t].result.value, frames[t].app_secret)
             = Bytes(frames[t].payload)

\* C4, its case: encrypt has returned for a payload that ends like padding.
C4_PayloadEndingLikePaddingEncrypted ==
  \E t \in Callers :
    /\ IsEncrypt(frames[t])
    /\ frames[t].pc = "done"
    /\ frames[t].result.ok
    /\ frames[t].payload = (* "ab\x02\x02" *) <<97, 98, 2, 2>>
    /\ Len(frames[t].app_secret) = 24

\* C5: two calls of encrypt with the same payload and the same secret have
\* the same output, whatever was called and however much time passed between
\* them; and equal blocks of the padded payload give equal blocks of output.
C5_Deterministic ==
  /\ \A t1, t2 \in Callers :
       (/\ frames[t1].encoded_payload # << >>
        /\ frames[t2].encoded_payload # << >>
        /\ frames[t1].payload = frames[t2].payload
        /\ frames[t1].app_secret = frames[t2].app_secret) =>
         frames[t1].encoded_payload = frames[t2].encoded_payload
  /\ \A t \in Callers :
       frames[t].pc = "b64encode" =>
         LET plain  == Blocks(Bytes(frames[t].padded_payload))
             cipher == Blocks(frames[t].encrypted_payload)
         IN  /\ Len(plain) = Len(cipher)
             /\ \A i, j \in 1..Len(plain) :
                  plain[i] = plain[j] => cipher[i] = cipher[j]

\* C5, its case: the callers have encrypted the same two equal blocks under
\* the same secret, one with xapo_utils.encrypt and one with
\* micro_payment._encrypt, after time has passed.
C5_SameCallTwice ==
  /\ clock > 0
  /\ {frames[t].module : t \in Callers} = Modules
  /\ \A t \in Callers :
       /\ IsEncrypt(frames[t])
       /\ frames[t].pc = "done"
       /\ frames[t].result.ok
       /\ frames[t].payload = Repeat(65, 32)
       /\ frames[t].app_secret = Key32

\* The fields of the query of a widget URL.
QueryNames == {(* "app_id" *) <<97, 112, 112, 95, 105, 100>>, (* "button_request" *) <<98, 117, 116, 116, 111, 110, 95, 114, 101, 113, 117, 101, 115, 116>>, (* "customization" *) <<99, 117, 115, 116, 111, 109, 105, 122, 97, 116, 105, 111, 110>>}

\* What C6 says of the fields names of the query of the URL of call f: the
\* query gives app_id as the builder's (the bytes of it in UTF-8), a
\* button_request that is not empty, and a customization that is
\* {"button_text": pay_type}.
FieldsGiven(f, query, names) ==
  /\ (* "app_id" *) <<97, 112, 112, 95, 105, 100>> \in names =>
       QueryValues(query, (* "app_id" *) <<97, 112, 112, 95, 105, 100>>) = {Bytes(builders[f.self].app_id)}
  /\ (* "button_request" *) <<98, 117, 116, 116, 111, 110, 95, 114, 101, 113, 117, 101, 115, 116>> \in names =>
       \E v \in QueryValues(query, (* "button_request" *) <<98, 117, 116, 116, 111, 110, 95, 114, 101, 113, 117, 101, 115, 116>>) :
         /\ v # << >>
         /\ QueryValues(query, (* "button_request" *) <<98, 117, 116, 116, 111, 110, 95, 114, 101, 113, 117, 101, 115, 116>>) = {v}
  /\ (* "customization" *) <<99, 117, 115, 116, 111, 109, 105, 122, 97, 116, 105, 111, 110>> \in names =>
       \E c \in QueryValues(query, (* "customization" *) <<99, 117, 115, 116, 111, 109, 105, 122, 97, 116, 105, 111, 110>>) :
         /\ QueryValues(query, (* "customization" *) <<99, 117, 115, 116, 111, 109, 105, 122, 97, 116, 105, 111, 110>>) = {c}
         /\ JsonObjectOfOne(c, (* "button_text" *) <<98, 117, 116, 116, 111, 110, 95, 116, 101, 120, 116>>) = PayTypeOf(f)

\* What C6 says of the text a build call has returned: the URL occurs in it
\* once, and the URL's query gives the three fields.
WidgetShape(f) ==
  /\ Cardinality(Occurrences(f.result.value, f.widget_url)) = 1
  /\ Utf8(builders[f.self].app_id).ok
  /\ FieldsGiven(f, UrlQuery(f.widget_url), QueryNames)

\* C6 as the specification states it, for the calls that return: whatever
\* the builder, the returned text has the shape.
C6_ShapeForEveryBuilder ==
  \A t \in Callers :
    (IsBuild(frames[t]) /\ frames[t].pc = "done" /\ frames[t].result.ok) =>
      WidgetShape(frames[t])

\* What the URL's query gives of a call that has returned, by the
\* service_url of the builder.  With a "#" in it the whole of "?" + query_str
\* is in the fragment of the URL: the query of the URL is that of service_url
\* and has none of the three fields.  With a "?" and no "#" the query of the
\* URL is that of service_url, "?" and query_str: the field the interpreter
\* iterates first is part of the last parameter of service_url and is not
\* given, the other two are.  With neither, the three fields are given.
FieldsByServiceUrl(f) ==
  LET service_url == builders[f.self].service_url
      query       == UrlQuery(f.widget_url)
      first       == parse_qsl(f.query_str)[1][1]
  IN  IF 35 \in Range(service_url)
        THEN /\ query = UrlQuery(service_url)
             /\ \A name \in QueryNames : QueryValues(query, name) = {}
      ELSE IF 63 \in Range(service_url)
        THEN /\ query = UrlQuery(service_url) \o (* "?" *) <<63>> \o f.query_str
             /\ first \in QueryNames
             /\ QueryValues(query, first) = {}
             /\ FieldsGiven(f, query, QueryNames \ {first})
      ELSE FieldsGiven(f, query, QueryNames)

\* C6, amended: a build call returns if and only if the secret is 16, 24 or
\* 32 bytes long, the app_id has an encoding in UTF-8 and the config has the
\* pay_type the builder reads (MicroPayment reads config.pay_type); the text
\* it returns has the URL once; and the query of the URL gives the three
\* fields when service_url has no "?" and no "#", whatever the order the
\* interpreter iterates the query in and whatever characters it quotes, all
\* but the first in that order when service_url has a "?" and no "#", and
\* none when it has a "#".
C6_ShapeByServiceUrl ==
  \A t \in Callers :
    (IsBuild(frames[t]) /\ frames[t].pc = "done") =>
      /\ frames[t].result.ok <=>
           /\ Len(Bytes(SecretOf(frames[t]))) \in {16, 24, 32}
           /\ Utf8(builders[frames[t].self].app_id).ok
           /\ PayTypeOf(frames[t]) # None
      /\ frames[t].result.ok =>
           /\ Cardinality(Occurrences(frames[t].result.value,
                                      frames[t].widget_url)) = 1
           /\ FieldsByServiceUrl(frames[t])

\* C6, its case: a div widget has been built for an app_id with characters
\* that a query string quotes, by an interpreter that iterates the query in
\* another order than that of insertion.
C6_WidgetBuiltWithQuotedAppId ==
  \E t \in Callers :
    /\ frames[t].fn = "build_div_widget"
    /\ frames[t].pc = "done"
    /\ frames[t].result.ok
    /\ builders[frames[t].self].service_url = ServiceUrl
    /\ builders[frames[t].self].app_id = AppIdQuoted
    /\ ~StartsWith(UrlQuery(frames[t].widget_url), (* "app_id=" *) <<97, 112, 112, 95, 105, 100, 61>>)

\* C7: whatever the callers have done, the builders and the configs are as
\* they were constructed, and the result of a call is the result the same
\* call has when it runs alone.
C7_BuildersUnchanged ==
  /\ builders = <<MicroPayment(ServiceUrl, AppId, Key32),
                  XapoMicroPaymentSDK(ServiceUrl, AppIdQuoted, Key16)>>
  /\ configs = <<MicroPaymentConfig("xapo_tools", DoctestKwargs("xapo_tools")),
                 MicroPaymentConfig("micro_payment", NoKwargs)>>
  /\ \A t \in Callers :
       (IsBuild(frames[t]) /\ frames[t].pc = "done") =>
         frames[t].result =
           Run(BuildFrame(frames[t].fn, frames[t].module, frames[t].self,
                          frames[t].config, frames[t].pay_type),
               builders[frames[t].self], configs[frames[t].config]).result

\* C7, its case: one caller has got its result from a builder and a config
\* while the other is in the middle of a call on the same two.
C7_ResultWhileOtherCallRuns ==
  \E t1, t2 \in Callers :
    /\ frames[t1].pc = "done"
    /\ frames[t1].result.ok
    /\ frames[t2].pc \in {"padding", "cipher_encrypt", "urlencode"}
    /\ frames[t1].self = frames[t2].self
    /\ frames[t1].config = frames[t2].config
    /\ frames[t1].fn # frames[t2].fn

\* The optional parameters whose default is the empty string.
TextFields(module) ==
  {"sender_user_id", "sender_user_email", "sender_user_cellphone",
   "receiver_user_id", "receiver_user_email", "pay_object_id"}
  \cup (IF module = "xapo_tools" THEN {"pay_type"} ELSE {})

\* C8 as the specification states it: in the JSON payload every field left
\* unset is a member whose value is the empty string.
C8_UnsetFieldsAreEmptyStrings ==
  \A t \in Callers :
    (IsBuild(frames[t]) /\ frames[t].json_config # << >>) =>
      \A field \in TextFields(configs[frames[t].config].module)
                   \cup {"amount_BIT", "timestamp"} :
        field \notin configs[frames[t].config].given =>
          JsonHasMember(frames[t].json_config, AttrName[field], (* "\"\"" *) <<34, 34>>)

\* C8, amended: the JSON payload has every key of the config's class once,
\* and no key of the other class, whatever was given; a text field left unset is the empty
\* string, amount_BIT left unset is the number 0 and timestamp left unset is
\* the number that is the default of the parameter.
C8_AllKeysPresent ==
  \A t \in Callers :
    (IsBuild(frames[t]) /\ frames[t].json_config # << >>) =>
      LET json   == frames[t].json_config
          module == configs[frames[t].config].module
          given  == configs[frames[t].config].given
          keys   == TextFields(module) \cup {"amount_BIT", "timestamp"}
      IN  /\ \A field \in DOMAIN AttrName :
               JsonMembers(json, AttrName[field])
                 = IF field \in keys THEN 1 ELSE 0
          /\ \A field \in TextFields(module) \ given :
               JsonHasMember(json, AttrName[field], (* "\"\"" *) <<34, 34>>)
          /\ "amount_BIT" \notin given =>
               JsonHasMember(json, AttrName.amount_BIT, (* "0" *) <<48>>)
          /\ "timestamp" \notin given =>
               JsonHasMember(json, AttrName.timestamp,
                             NatStr(defaultTimestamp[module][1]))

\* C8, its case: a config constructed with no argument has been serialized,
\* its keys in another order than that of insertion.
C8_EmptyConfigSerialized ==
  \E t \in Callers :
    /\ IsBuild(frames[t])
    /\ frames[t].json_config # << >>
    /\ configs[frames[t].config].given = {}
    /\ ~StartsWith(frames[t].json_config, (* "{\"sender_user_id\"" *) <<123, 34, 115, 101, 110, 100, 101, 114, 95, 117, 115, 101, 114, 95, 105, 100, 34>>)

\* C9 as the specification states it: what is handed to the cipher is a
\* whole number of blocks of bytes, and the pad value is 16 minus the byte
\* length of the payload mod 16.
C9_PaddingFromByteLength ==
  \A t \in Callers :
    frames[t].pc = "cipher_encrypt" =>
      LET bytes  == Utf8(frames[t].payload)
          handed == Utf8(frames[t].padded_payload)
      IN  (bytes.ok /\ handed.ok) =>
            /\ Len(handed.value) % 16 = 0
            /\ handed.value[Len(handed.value)] = 16 - (Len(bytes.value) % 16)

\* What C10 says of a build call that has made its query string: with
\* MicroPayment the payload that was encrypted has the pay_type key with the
\* config's pay_type, which is also the button_text; with
\* XapoMicroPaymentSDK the payload has no pay_type key, the button_text is
\* the pay_type argument, and the button_request is the one the same call
\* has with any other pay_type.
PayTypePlacement(f) ==
  LET request == QueryValues(f.query_str, (* "button_request" *) <<98, 117, 116, 116, 111, 110, 95, 114, 101, 113, 117, 101, 115, 116>>)
      custom  == QueryValues(f.query_str, (* "customization" *) <<99, 117, 115, 116, 111, 109, 105, 122, 97, 116, 105, 111, 110>>)
      payload == Decrypt(CHOOSE v \in request : TRUE, SecretOf(f))
      ButtonTextIs(val) ==
        \E c \in custom :
          custom = {c} /\ JsonObjectOfOne(c, (* "button_text" *) <<98, 117, 116, 116, 111, 110, 95, 116, 101, 120, 116>>) = val
  IN  /\ Cardinality(request) = 1
      /\ IF f.module = "xapo_tools"
           THEN LET pay_type == DictGet(configs[f.config].dict,
                                        AttrName.pay_type)
                IN  /\ ButtonTextIs(pay_type)
                    /\ JsonHasMember(payload, AttrName.pay_type,
                                     JsonString(pay_type.v))
           ELSE /\ ButtonTextIs(StrVal(f.pay_type))
                /\ JsonMembers(payload, AttrName.pay_type) = 0
                /\ \A pay_type \in PayTypes :
                     request =
                       {Run(BuildFrame(f.fn, f.module, f.self, f.config,
                                       pay_type),
                            builders[f.self],
                            configs[f.config]).encrypted_config}

\* C10 as the specification states it: whatever the config a builder is
\* given, the placement of pay_type is that of the builder.
C10_PlacementForEveryConfig ==
  \A t \in Callers :
    (IsBuild(frames[t]) /\ frames[t].pc = "widget_url") =>
      PayTypePlacement(frames[t])

\* C10, amended: for a config of the class of the builder's own module the
\* placement of pay_type is that of the builder; MicroPayment given a config
\* of micro_payment encrypts a payload without pay_type and then fails with
\* AttributeError, having made no query string.
C10_PayTypePlacement ==
  \A t \in Callers :
    IsBuild(frames[t]) =>
      IF configs[frames[t].config].module = frames[t].module
        THEN frames[t].pc = "widget_url" => PayTypePlacement(frames[t])
        ELSE frames[t].module = "xapo_tools" =>
               /\ frames[t].pc \notin {"widget_url", "snippet"}
               /\ frames[t].query_str = << >>
               /\ frames[t].json_config # << >> =>
                    JsonMembers(frames[t].json_config, AttrName.pay_type) = 0
               /\ (frames[t].pc = "done" /\ frames[t].encrypted_config # << >>)
                    => frames[t].result = Raise("AttributeError")

\* C10, its case: a micro_payment builder has made the query string of a call
\* whose pay_type argument has a character outside ASCII, for a config of
\* micro_payment.
C10_MicroPaymentQueryMade ==
  \E t \in Callers :
    /\ IsBuild(frames[t])
    /\ frames[t].pc = "widget_url"
    /\ frames[t].module = "micro_payment"
    /\ configs[frames[t].config].module = "micro_payment"
    /\ ~IsAscii(frames[t].pay_type)
====
